---- MODULE Spec2Model ----
(***************************************************************************)
(* A model of the waq WebAssembly-to-QBE compiler core:                    *)
(*   - the binary reader's LEB128 decoders and parse_module's header check *)
(*     (waq/parser/binary.py, waq/parser/module.py);                       *)
(*   - the function-name mangling of ModuleContext (waq/compiler/context)  *)
(*     next to the CLI's mangle_export_name (waq/cli.py);                  *)
(*   - the walk of one function body by the validator                      *)
(*     (waq/validator) and by the stack-to-SSA code generator              *)
(*     (waq/compiler/codegen.py, waq/compiler/instructions/control.py);    *)
(*   - parse_module's section loop with the import, export, memory,        *)
(*     global, custom and data-count sections (waq/parser/module.py);      *)
(*   - the validator's walk of a function body given as bytes              *)
(*     (waq/validator/module.py);                                          *)
(*   - compile_module called again on the same decoded module;             *)
(*   - the call, br_table and branch handlers of the code generator, each  *)
(*     on its own (waq/compiler/instructions/control.py);                  *)
(*   - select and the exception handling instructions                      *)
(*     (waq/compiler/codegen.py, waq/compiler/instructions/exceptions.py); *)
(*   - the labels new_label returns in one function.                       *)
(* Each part has its own specification over the shared variables; the      *)
(* variables a specification does not use stay at their idle value.        *)
(***************************************************************************)
EXTENDS Integers, Sequences, FiniteSets, TLC

VARIABLES
    rd,         \* BinaryReader: [data, pos]
    leb,        \* one LEB128 read in progress: [mode, n, result, shift, status]
    pm,         \* parse_module: [pc, status]
    mod,        \* WasmModule: [imports, exports, function_names, nfuncs]
    func_names, \* ModuleContext.func_names, the cache of get_func_name
    cg,         \* FunctionContext and the IL function under construction
    vc,         \* ValidationContext of the validator's walk of the same body
    fn,         \* the function being compiled: [idx, params, results]
    last        \* the instruction processed last

vars == <<rd, leb, pm, mod, func_names, cg, vc, fn, last>>

(***************************************************************************)
(* The idle values of the variables a specification leaves alone.          *)
(***************************************************************************)
EmptyModule ==
    [imports |-> <<>>, exports |-> <<>>, function_names |-> <<>>, nfuncs |-> 0]

IdleParse == [pc |-> "idle", status |-> "idle"]

IdleCg == [exc |-> "idle"]

IdleVc == [errors |-> 0]

IdleFn == [idx |-> 0]

IdleLast == [op |-> "idle", name |-> <<>>, native |-> <<>>, index |-> 0]

(***************************************************************************)
(* Bounds of the model.                                                    *)
(***************************************************************************)
\* longest byte string handed to read_u32_leb128
MaxLebBytes == 6

(***************************************************************************)
(* Integers wider than the checker's machine integers are kept as base-128 *)
(* digits, least significant first: digit k holds bits 7k .. 7k+6.  neg    *)
(* says that every bit above the last digit is set (Python's unbounded     *)
(* two's complement).                                                      *)
(***************************************************************************)
\* digits 0 .. 9 cover bits 0 .. 69, what ten LEB128 bytes can carry
TopDigit == 9

Digits == 0..TopDigit

ZeroInt == [d |-> [k \in Digits |-> 0], neg |-> FALSE]

\* bit b (0..6) of a 7-bit payload
Bit(x, b) == (x \div (2 ^ b)) % 2

\* x | y on 7-bit payloads
BitOr7(x, y) ==
    LET bits == [b \in 0..6 |-> IF Bit(x, b) = 1 \/ Bit(y, b) = 1 THEN 1 ELSE 0]
    IN  bits[0] + 2 * bits[1] + 4 * bits[2] + 8 * bits[3]
        + 16 * bits[4] + 32 * bits[5] + 64 * bits[6]

\* result |= payload << shift, for shift a multiple of 7
OrShifted(result, payload, shift) ==
    [result EXCEPT !.d[shift \div 7] = BitOr7(@, payload)]

\* result |= ~0 << shift, for shift a multiple of 7
OrOnesFrom(result, shift) ==
    [d |-> [k \in Digits |-> IF k >= shift \div 7 THEN 127 ELSE result.d[k]],
     neg |-> TRUE]

\* 0 <= value < 2^32: bits 32 and above are clear
FitsU32(v) ==
    /\ ~v.neg
    /\ v.d[4] < 16
    /\ \A k \in Digits : k > 4 => v.d[k] = 0

(***************************************************************************)
(* BinaryReader                                                            *)
(***************************************************************************)
IdleReader == [data |-> <<>>, pos |-> 0]

at_end(r) == r.pos >= Len(r.data)

\* read_byte: the byte and the advanced reader; the caller tests at_end
\* first, where read_byte raises ParseError
NextByte(r) == r.data[r.pos + 1]

Advance(r, n) == [r EXCEPT !.pos = @ + n]

(***************************************************************************)
(* LEB128 decoders, one loop iteration per step                            *)
(***************************************************************************)
IdleLeb == [mode |-> "idle", n |-> ZeroInt, result |-> ZeroInt, shift |-> 0,
            status |-> "idle"]

\* the shift at which read_u32_leb128 gives up: "if shift >= 35"
U32ShiftLimit == 35

\* one iteration of read_u32_leb128's loop
read_u32_iter(r, l) ==
    IF at_end(r)
    THEN [rd |-> r, leb |-> [l EXCEPT !.status = "ParseError"]]
    ELSE LET byte == NextByte(r)
             res  == OrShifted(l.result, byte % 128, l.shift)
         IN  IF byte \div 128 = 0
             THEN [rd |-> Advance(r, 1),
                   leb |-> [l EXCEPT !.result = res, !.status = "returned"]]
             ELSE IF l.shift + 7 >= U32ShiftLimit
             THEN [rd |-> Advance(r, 1),
                   leb |-> [l EXCEPT !.result = res, !.shift = @ + 7,
                                     !.status = "ParseError"]]
             ELSE [rd |-> Advance(r, 1),
                   leb |-> [l EXCEPT !.result = res, !.shift = @ + 7]]

\* the shift at which read_s64_leb128 gives up: "if shift >= 70"
S64ShiftLimit == 70

\* the width below which read_s64_leb128 sign-extends: "if shift < 64"
S64SignWidth == 64

\* one iteration of read_s64_leb128's loop
read_s64_iter(r, l) ==
    IF at_end(r)
    THEN [rd |-> r, leb |-> [l EXCEPT !.status = "ParseError"]]
    ELSE LET byte  == NextByte(r)
             res   == OrShifted(l.result, byte % 128, l.shift)
             shift == l.shift + 7
         IN  IF byte \div 128 = 0
             THEN [rd |-> Advance(r, 1),
                   leb |-> [l EXCEPT
                       !.result = IF shift < S64SignWidth /\ Bit(byte, 6) = 1
                                  THEN OrOnesFrom(res, shift) ELSE res,
                       !.shift = shift,
                       !.status = "returned"]]
             ELSE IF shift >= S64ShiftLimit
             THEN [rd |-> Advance(r, 1),
                   leb |-> [l EXCEPT !.result = res, !.shift = shift,
                                     !.status = "ParseError"]]
             ELSE [rd |-> Advance(r, 1),
                   leb |-> [l EXCEPT !.result = res, !.shift = shift]]

(***************************************************************************)
(* Inputs of the LEB128 specification                                      *)
(***************************************************************************)
\* bytes tried by read_u32_leb128: final and continuation bytes with small
\* and large payloads
LebBytes == {0, 15, 16, 143, 255}

RECURSIVE SeqsUpTo(_, _)
SeqsUpTo(S, n) ==
    IF n = 0 THEN {<<>>}
    ELSE LET shorter == SeqsUpTo(S, n - 1)
         IN  shorter \cup {Append(s, x) : s \in {t \in shorter : Len(t) = n - 1}, x \in S}

\* the integers n of [-2^63, 2^63) tried by read_s64_leb128: k low digits
\* (low, mid .. mid, top) under the sign fill; digit 9 is bits 63..69, all
\* equal to the sign
SampleDigits == {0, 1, 63, 64, 127}

SampleInt(neg, k, low, mid, top) ==
    [d |-> [i \in Digits |->
              IF i >= k THEN (IF neg THEN 127 ELSE 0)
              ELSE IF i = k - 1 THEN top
              ELSE IF i = 0 THEN low
              ELSE mid],
     neg |-> neg]

SampleInts ==
    {SampleInt(neg, k, low, mid, top) :
        neg \in BOOLEAN, k \in 0..TopDigit,
        low \in SampleDigits, mid \in SampleDigits, top \in SampleDigits}

\* n >> 7(i+1) is 0, resp. -1
RestIsZero(n, i) == ~n.neg /\ \A j \in Digits : j > i => n.d[j] = 0
RestIsMinusOne(n, i) == n.neg /\ \A j \in Digits : j > i => n.d[j] = 127

\* the signed LEB128 encoding of n, from digit i on
RECURSIVE EncodeS64From(_, _)
EncodeS64From(n, i) ==
    LET byte == n.d[i]
    IN  IF \/ RestIsZero(n, i) /\ Bit(byte, 6) = 0
           \/ RestIsMinusOne(n, i) /\ Bit(byte, 6) = 1
        THEN <<byte>>
        ELSE <<byte + 128>> \o EncodeS64From(n, i + 1)

EncodeS64(n) == EncodeS64From(n, 0)

InitLeb ==
    /\ \/ /\ rd \in {[data |-> s, pos |-> 0] : s \in SeqsUpTo(LebBytes, MaxLebBytes)}
          /\ leb = [IdleLeb EXCEPT !.mode = "u32", !.status = "running"]
       \/ \E n \in SampleInts :
            /\ rd = [data |-> EncodeS64(n), pos |-> 0]
            /\ leb = [IdleLeb EXCEPT !.mode = "s64", !.n = n, !.status = "running"]
    /\ pm = IdleParse
    /\ mod = EmptyModule
    /\ func_names = <<>>
    /\ cg = IdleCg
    /\ vc = IdleVc
    /\ fn = IdleFn
    /\ last = IdleLast

ReadU32Iter ==
    /\ leb.mode = "u32" /\ leb.status = "running"
    /\ rd' = read_u32_iter(rd, leb).rd
    /\ leb' = read_u32_iter(rd, leb).leb
    /\ UNCHANGED <<pm, mod, func_names, cg, vc, fn, last>>

ReadS64Iter ==
    /\ leb.mode = "s64" /\ leb.status = "running"
    /\ rd' = read_s64_iter(rd, leb).rd
    /\ leb' = read_s64_iter(rd, leb).leb
    /\ UNCHANGED <<pm, mod, func_names, cg, vc, fn, last>>

NextLeb == ReadU32Iter \/ ReadS64Iter

SpecLeb == InitLeb /\ [][NextLeb]_vars

(***************************************************************************)
(* parse_module: the header check and the section stream                   *)
(***************************************************************************)
\* longest input handed to parse_module
MaxInputLen == 12

WASM_MAGIC == <<0, 97, 115, 109>>

WASM_VERSION == 1

\* the largest known section id, SectionId.DATA_COUNT
DATA_COUNT == 12

\* read_bytes without its length test: Python's slice, which is short when
\* the data is
read_bytes_unchecked(r, n) ==
    LET upto == IF r.pos + n > Len(r.data) THEN Len(r.data) ELSE r.pos + n
    IN  [ok |-> TRUE, bytes |-> SubSeq(r.data, r.pos + 1, upto), rd |-> Advance(r, n)]

\* read_bytes: exactly n bytes, or ParseError
read_bytes(r, n) ==
    IF r.pos + n > Len(r.data)
    THEN [ok |-> FALSE, bytes |-> <<>>, rd |-> r]
    ELSE [ok |-> TRUE, bytes |-> SubSeq(r.data, r.pos + 1, r.pos + n),
          rd |-> Advance(r, n)]

\* int.from_bytes(b, "little")
RECURSIVE from_bytes_little(_)
from_bytes_little(b) ==
    IF b = <<>> THEN 0 ELSE Head(b) + 256 * from_bytes_little(Tail(b))

\* read_u32_leb128 run to its end
RECURSIVE read_u32_run(_, _)
read_u32_run(r, l) ==
    IF l.status # "running" THEN [rd |-> r, leb |-> l]
    ELSE read_u32_run(read_u32_iter(r, l).rd, read_u32_iter(r, l).leb)

read_u32_leb128(r) ==
    read_u32_run(r, [IdleLeb EXCEPT !.mode = "u32", !.status = "running"])

\* the decoded value exceeds what the remaining bytes could hold, or is it
SmallValue(v) == v.d[0] + 128 * v.d[1]
IsSmall(v) == ~v.neg /\ \A k \in Digits : k > 1 => v.d[k] = 0

\* parse_module, "Check magic number"
check_magic(r, p) ==
    LET got == read_bytes(r, 4)
    IN  IF ~got.ok \/ got.bytes # WASM_MAGIC
        THEN [rd |-> got.rd, pm |-> [p EXCEPT !.status = "ParseError"]]
        ELSE [rd |-> got.rd, pm |-> [p EXCEPT !.pc = "version"]]

\* parse_module, "Check version"
check_version(r, p) ==
    LET got == read_bytes(r, 4)
    IN  IF ~got.ok \/ from_bytes_little(got.bytes) # WASM_VERSION
        THEN [rd |-> got.rd, pm |-> [p EXCEPT !.status = "ParseError"]]
        ELSE [rd |-> got.rd, pm |-> [p EXCEPT !.pc = "sections"]]

\* one iteration of "while not reader.at_end": section id, size, slice, and
\* the section's parser.  Of the known sections the data count section is
\* modelled; the inputs hold no other known section.
parse_one_section(r, p) ==
    LET id    == NextByte(r)
        size  == read_u32_leb128(Advance(r, 1))
        n     == SmallValue(size.leb.result)
        slice == read_bytes(size.rd, n)
        inner == read_u32_leb128([data |-> slice.bytes, pos |-> 0])
        raise == [rd |-> size.rd, pm |-> [p EXCEPT !.status = "ParseError"]]
    IN  IF size.leb.status # "returned" THEN raise
        ELSE IF ~IsSmall(size.leb.result) \/ ~slice.ok THEN raise
        ELSE IF id = DATA_COUNT /\ inner.leb.status # "returned" THEN raise
        ELSE [rd |-> slice.rd, pm |-> p]

\* candidate headers and section streams; an input is a prefix of
\* magic, version, sections
SampleMagics ==
    {WASM_MAGIC, <<0, 98, 115, 109>>, <<1, 97, 115, 109>>, <<0, 97, 115, 108>>}

SampleVersions ==
    {<<1, 0, 0, 0>>, <<2, 0, 0, 0>>, <<0, 0, 0, 0>>, <<1, 1, 0, 0>>,
     <<0, 0, 0, 1>>, <<1, 0, 0, 1>>}

SampleSections ==
    {<<>>, <<13, 0>>, <<13, 1, 7>>, <<13, 2, 7>>, <<12, 1, 5>>, <<12, 0>>,
     <<13, 1, 7, 13, 0>>, <<13, 128, 0>>}

Prefix(s, k) == SubSeq(s, 1, IF k < Len(s) THEN k ELSE Len(s))

InitHeader ==
    /\ \E m \in SampleMagics, v \in SampleVersions, t \in SampleSections,
          k \in 0..MaxInputLen :
            rd = [data |-> Prefix(m \o v \o t, k), pos |-> 0]
    /\ pm = [pc |-> "magic", status |-> "running"]
    /\ leb = IdleLeb
    /\ mod = EmptyModule
    /\ func_names = <<>>
    /\ cg = IdleCg
    /\ vc = IdleVc
    /\ fn = IdleFn
    /\ last = IdleLast

CheckMagic ==
    /\ pm.status = "running" /\ pm.pc = "magic"
    /\ rd' = check_magic(rd, pm).rd
    /\ pm' = check_magic(rd, pm).pm
    /\ UNCHANGED <<leb, mod, func_names, cg, vc, fn, last>>

CheckVersion ==
    /\ pm.status = "running" /\ pm.pc = "version"
    /\ rd' = check_version(rd, pm).rd
    /\ pm' = check_version(rd, pm).pm
    /\ UNCHANGED <<leb, mod, func_names, cg, vc, fn, last>>

ParseSection ==
    /\ pm.status = "running" /\ pm.pc = "sections" /\ ~at_end(rd)
    /\ rd' = parse_one_section(rd, pm).rd
    /\ pm' = parse_one_section(rd, pm).pm
    /\ UNCHANGED <<leb, mod, func_names, cg, vc, fn, last>>

ReturnModule ==
    /\ pm.status = "running" /\ pm.pc = "sections" /\ at_end(rd)
    /\ pm' = [pm EXCEPT !.status = "returned"]
    /\ UNCHANGED <<rd, leb, mod, func_names, cg, vc, fn, last>>

NextHeader == CheckMagic \/ CheckVersion \/ ParseSection \/ ReturnModule

SpecHeader == InitHeader /\ [][NextHeader]_vars

\* what the claim calls a bad header, read off the input itself
ShortInput(data) == Len(data) < 8
BadMagic(data) == Len(data) >= 4 /\ SubSeq(data, 1, 4) # WASM_MAGIC
BadVersion(data) ==
    /\ Len(data) >= 8
    /\ ~(data[5] = 1 /\ data[6] = 0 /\ data[7] = 0 /\ data[8] = 0)

(***************************************************************************)
(* C8: parse_module raises ParseError for every input shorter than 8       *)
(* bytes, for every input whose first four bytes are not 00 61 73 6D, and  *)
(* for every input whose little-endian 32-bit version field is not 1.      *)
(***************************************************************************)
C8_HeaderRejected ==
    (ShortInput(rd.data) \/ BadMagic(rd.data) \/ BadVersion(rd.data))
        => /\ pm.status # "returned"
           /\ pm.pc # "sections"
           /\ (pm.status # "running" => pm.status = "ParseError")

\* each of the three cases is rejected in some run, the bad version after a
\* good magic
C8_Witness ==
    /\ pm.status = "ParseError"
    /\ pm.pc = "version"
    /\ ~ShortInput(rd.data) /\ ~BadMagic(rd.data) /\ BadVersion(rd.data)

(***************************************************************************)
(* Function symbols: ModuleContext.get_func_name, WasmModule.get_func_name *)
(* and the CLI's mangle_export_name.                                       *)
(*                                                                         *)
(* A name is a sequence of chunks whose concatenation is the string; the   *)
(* chunks used form a prefix-free code, so two names are the same string   *)
(* exactly when they are the same sequence, n.startswith("wasm_") is       *)
(* Head(n) = "wasm_", and f"__wasm_{n}" is <<"__wasm_">> \o n.             *)
(***************************************************************************)
\* most imports and most exports of a sampled module
MaxImports == 2
MaxExports == 2

\* functions the sampled module defines itself
NumDefined == 2

FUNC == "func"

\* WasmModule.num_imported_funcs
num_imported_funcs(m) ==
    Cardinality({k \in 1..Len(m.imports) : m.imports[k].kind = FUNC})

NumFuncs(m) == num_imported_funcs(m) + m.nfuncs

\* positions of the function imports, in order: the func_idx-th is the
\* import of function index func_idx
FuncImportPositions(m) == {k \in 1..Len(m.imports) : m.imports[k].kind = FUNC}

NthFuncImport(m, func_idx) ==
    CHOOSE k \in FuncImportPositions(m) :
        Cardinality({j \in FuncImportPositions(m) : j < k}) = func_idx

\* the first function export of func_idx, 0 when there is none
FirstFuncExport(m, func_idx) ==
    LET hits == {k \in 1..Len(m.exports) :
                    m.exports[k].kind = FUNC /\ m.exports[k].index = func_idx}
    IN  IF hits = {} THEN 0 ELSE CHOOSE k \in hits : \A j \in hits : k <= j

\* WasmModule.get_func_name
module_get_func_name(m, func_idx) ==
    IF func_idx \in DOMAIN m.function_names THEN m.function_names[func_idx]
    ELSE IF FirstFuncExport(m, func_idx) # 0
    THEN m.exports[FirstFuncExport(m, func_idx)].name
    ELSE <<"func_", ToString(func_idx)>>

\* cli.mangle_export_name
mangle_export_name(name) ==
    IF name = <<"_start">> \/ (name # <<>> /\ Head(name) \in {"wasm_", "__wasm_"})
    THEN name
    ELSE <<"wasm_">> \o name

\* ModuleContext.get_func_name, on a cache miss
compute_func_name(m, func_idx) ==
    IF func_idx < num_imported_funcs(m)
    THEN m.imports[NthFuncImport(m, func_idx)].name
    ELSE IF FirstFuncExport(m, func_idx) # 0
    THEN m.exports[FirstFuncExport(m, func_idx)].name
    ELSE <<"__wasm_">> \o module_get_func_name(m, func_idx)

\* ModuleContext.get_func_name: the symbol and the cache after the call
get_func_name(m, cache, func_idx) ==
    IF func_idx \in DOMAIN cache
    THEN [name |-> cache[func_idx], cache |-> cache]
    ELSE [name |-> compute_func_name(m, func_idx),
          cache |-> [i \in DOMAIN cache \cup {func_idx} |->
                        IF i = func_idx THEN compute_func_name(m, func_idx)
                        ELSE cache[i]]]

SampleImports ==
    {[module |-> "env",  name |-> <<"add">>, kind |-> FUNC],
     [module |-> "host", name |-> <<"add">>, kind |-> FUNC],
     [module |-> "env",  name |-> <<"mem">>, kind |-> "memory"]}

SampleExportNames ==
    {<<"main">>, <<"add">>, <<"_start">>, <<"wasm_", "main">>,
     <<"__wasm_", "func_", "1">>}

SampleDebugNames == {<<"main">>, <<"func_", "1">>}

\* the modules of the name specification: valid ones, so export names are
\* unique and a function export names a function of the module
SampleModules ==
    {m \in [imports : SeqsUpTo(SampleImports, MaxImports),
            exports : SeqsUpTo([name : SampleExportNames, kind : {FUNC, "global"},
                                index : 0..(MaxImports + NumDefined - 1)],
                               MaxExports),
            function_names : {<<>>} \cup
                {[i \in {k} |-> n] : k \in 0..(MaxImports + NumDefined - 1),
                                     n \in SampleDebugNames},
            nfuncs : {NumDefined}] :
        /\ \A a, b \in 1..Len(m.exports) :
              a # b => m.exports[a].name # m.exports[b].name
        /\ \A a \in 1..Len(m.exports) :
              /\ m.exports[a].kind = FUNC => m.exports[a].index < NumFuncs(m)
              /\ m.exports[a].kind = "global" => m.exports[a].index = 0
        /\ DOMAIN m.function_names \subseteq 0..(NumFuncs(m) - 1)}

InitNames ==
    /\ mod \in SampleModules
    /\ func_names = <<>>
    /\ rd = IdleReader
    /\ leb = IdleLeb
    /\ pm = IdleParse
    /\ cg = IdleCg
    /\ vc = IdleVc
    /\ fn = IdleFn
    /\ last = IdleLast

\* compile_module asks for the symbol of a function: one it defines
\* (_compile_function) or one a body calls (_emit_call)
GetFuncName ==
    /\ \E i \in 0..(NumFuncs(mod) - 1) :
          func_names' = get_func_name(mod, func_names, i).cache
    /\ UNCHANGED <<rd, leb, pm, mod, cg, vc, fn, last>>

\* the CLI generates the main stub for an exported entry function: the
\* stub calls mangle_export_name(entry_function)
GenerateMainStub ==
    /\ \E k \in 1..Len(mod.exports) :
          /\ mod.exports[k].kind = FUNC
          /\ last' = [op |-> "main_stub", name |-> mod.exports[k].name,
                      native |-> mangle_export_name(mod.exports[k].name),
                      index |-> mod.exports[k].index]
    /\ UNCHANGED <<rd, leb, pm, mod, func_names, cg, vc, fn>>

NextNames == GetFuncName \/ GenerateMainStub

SpecNames == InitNames /\ [][NextNames]_vars

\* function index i is defined by the module and its symbol comes from its
\* export record k
ExportedAs(i, k) ==
    /\ i >= num_imported_funcs(mod)
    /\ k = FirstFuncExport(mod, i)
    /\ k # 0

(***************************************************************************)
(* C6: the native symbol the code generator gives to an exported function  *)
(* named N is N itself when N is _start or begins with wasm_ or __wasm_,   *)
(* and wasm_ followed by N otherwise: the symbol mangle_export_name(N)     *)
(* that the generated main stub calls.                                     *)
(***************************************************************************)
C6_ExportSymbolIsMangled ==
    /\ \A i \in DOMAIN func_names : \A k \in 1..Len(mod.exports) :
          ExportedAs(i, k) =>
              func_names[i] = mangle_export_name(mod.exports[k].name)
    /\ (last.op = "main_stub" /\ last.index \in DOMAIN func_names
            /\ ExportedAs(last.index, FirstFuncExport(mod, last.index))
            /\ mod.exports[FirstFuncExport(mod, last.index)].name = last.name)
          => func_names[last.index] = last.native

(***************************************************************************)
(* C7: for every module, the native symbols that the mangling rule assigns *)
(* to two distinct function indices (imported, exported or internal) are   *)
(* distinct.                                                               *)
(***************************************************************************)
C7_SymbolsDistinct ==
    \A i, j \in DOMAIN func_names : i # j => func_names[i] # func_names[j]

(***************************************************************************)
(* The walk of one function body: _compile_function and the handlers of    *)
(* compile_control_instruction build the IL function, while the validator  *)
(* walks the same instructions.  The body is read one instruction at a     *)
(* time; a Python exception ends the compilation with cg.exc set.          *)
(***************************************************************************)
\* most parameters of the compiled function, most instructions of its body
MaxParams == 1
MaxBody == 4

\* most values the sampled bodies keep on the value stack, and most open
\* blocks they nest
MaxStack == 2
MaxNest == 2

I32 == "i32"

\* Python's None where a string is expected
NONE == "None"

FuncType(params, results) == [params |-> params, results |-> results]

\* the type section of the sampled module: the compiled function's own
\* type, the type of the other function, and a two-result block type
ModuleTypes(f) ==
    <<FuncType(f.params, f.results), FuncType(<<I32>>, <<I32>>),
      FuncType(<<>>, <<I32, I32>>)>>

\* WasmModule.get_func_type: the compiled function has type 0, the other
\* function of the module has type 1
get_func_type(f, func_idx) ==
    IF func_idx = f.idx THEN ModuleTypes(f)[1] ELSE ModuleTypes(f)[2]

\* the module of the walk: two functions, no imports, no exports, no name
\* section
WalkModule ==
    [imports |-> <<>>, exports |-> <<>>, function_names |-> <<>>,
     nfuncs |-> 2]

\* block types as BinaryReader.read_block_type returns them: None, a value
\* type, or a type index
BT_EMPTY == [tag |-> "empty", t |-> "", i |-> 0]
BT_VAL(t) == [tag |-> "val", t |-> t, i |-> 0]
BT_IDX(i) == [tag |-> "idx", t |-> "", i |-> i]

\* one decoded instruction: opcode, block type immediate, index immediate
Ins(op, bt, arg) == [op |-> op, bt |-> bt, arg |-> arg]

\* ---- qbepy IR values ----
NoTerminator == [kind |-> "none", a |-> "", b |-> "", c |-> ""]
Jump(target) == [kind |-> "jmp", a |-> target, b |-> "", c |-> ""]
Branch(cond, if_true, if_false) ==
    [kind |-> "jnz", a |-> cond, b |-> if_true, c |-> if_false]
Return(value) == [kind |-> "ret", a |-> value, b |-> "", c |-> ""]
Halt == [kind |-> "hlt", a |-> "", b |-> "", c |-> ""]

Instruction(op, res, args, target) ==
    [op |-> op, res |-> res, args |-> args, target |-> target]
Copy(res) == Instruction("copy", res, <<>>, <<>>)
Alloc(res) == Instruction("alloc", res, <<>>, <<>>)
Store(value, address) == Instruction("store", "", <<value, address>>, <<>>)
Call(target, args, res) == Instruction("call", res, args, target)

Phi(res, incoming) == [result |-> res, incoming |-> incoming]

\* a block of the IL function; sets counts the assignments made to its
\* terminator
Block(name) ==
    [name |-> name, phis |-> <<>>, instructions |-> <<>>,
     terminator |-> NoTerminator, sets |-> 0]

\* ---- ValueStack ----
StackValue(name, type) == [name |-> name, type |-> type]

Temp(k) == "t" \o ToString(k)

Underflow == "CompileError: stack underflow"

\* ValueStack.peek_at, for index < depth: the value index places below
\* the top
peek_at_from_bottom(c, index) == c.stack[index + 1]

peek_at(c, index) == c.stack[Len(c.stack) - index]

\* ValueStack.pop_n, for n <= depth: the slice _stack[-n:] it returns and
\* the slice _stack[:-n] it keeps
pop_n_values(s, n) == IF n = 0 THEN s ELSE SubSeq(s, Len(s) - n + 1, Len(s))

pop_n_rest(s, n) == IF n = 0 THEN <<>> ELSE SubSeq(s, 1, Len(s) - n)

\* ValueStack.new_temp: a fresh temporary, pushed
new_temp(c, vtype) ==
    [c EXCEPT !.stack = Append(@, StackValue(Temp(c.temp_counter), vtype)),
              !.temp_counter = @ + 1]

\* ---- FunctionContext ----
\* a label counter that outlives the call: labels numbered on from the
\* number of the compile_module call
new_label_across_calls(c, prefix, k) ==
    prefix \o ToString(c.label_counter + k + pm.call)

\* FunctionContext.new_label, for the k-th label taken by one handler
new_label(c, prefix, k) == prefix \o ToString(c.label_counter + k)

\* ControlFrame; at_else_block and at_else_stack are history: the current
\* block and the value stack when the frame's else was processed
ControlFrame(kind, start_depth, result_types, label_name, else_label, end_label) ==
    [kind |-> kind, start_depth |-> start_depth, result_types |-> result_types,
     label_name |-> label_name, else_label |-> else_label,
     end_label |-> end_label, has_then_values |-> FALSE, then_values |-> <<>>,
     then_label |-> NONE, at_else_block |-> NONE, at_else_stack |-> <<>>]

NoFrame == ControlFrame("none", 0, <<>>, NONE, NONE, NONE)

Raise(c, e) == [c EXCEPT !.exc = e, !.pc = "raised"]

\* Function.add_block: the new block is the last of the function
add_block(c, name) == [c EXCEPT !.blocks = Append(@, Block(name))]

\* block.terminator = term, for block number b
set_terminator(c, b, term) ==
    [c EXCEPT !.blocks[b].terminator = term, !.blocks[b].sets = @ + 1]

\* block.instructions.append(ins)
append(c, b, ins) == [c EXCEPT !.blocks[b].instructions = Append(@, ins)]

\* control._block_type_to_results; an index past the type section is an
\* IndexError
block_type_in_range(bt, f) == bt.tag = "idx" => bt.i < Len(ModuleTypes(f))

_block_type_to_results(bt, f) ==
    IF bt.tag = "empty" THEN <<>>
    ELSE IF bt.tag = "val" THEN <<bt.t>>
    ELSE ModuleTypes(f)[bt.i + 1].results

\* ---- compile_control_instruction, one operator per opcode; each maps ----
\* ---- the context before the instruction to the context after it     ----
\* 0x00 unreachable
compile_unreachable(c) ==
    set_terminator(
        append(c, c.cur, Call(<<"__wasm_trap_unreachable">>, <<>>, "")),
        c.cur, Halt)

\* 0x02 block
compile_block(c, f, bt) ==
    IF ~block_type_in_range(bt, f) THEN Raise(c, "IndexError")
    ELSE [c EXCEPT
            !.label_counter = @ + 1,
            !.control = Append(@, ControlFrame("block", Len(c.stack),
                                   _block_type_to_results(bt, f),
                                   new_label(c, "block_end", 0), NONE, NONE))]

\* 0x03 loop
compile_loop(c, f, bt) ==
    IF ~block_type_in_range(bt, f) THEN Raise(c, "IndexError")
    ELSE LET loop_label == new_label(c, "loop", 0)
             c1 == add_block(set_terminator(c, c.cur, Jump(loop_label)),
                             loop_label)
         IN  [c1 EXCEPT
                !.label_counter = @ + 1,
                !.control = Append(@, ControlFrame("loop", Len(c.stack),
                                       _block_type_to_results(bt, f),
                                       loop_label, NONE, NONE)),
                !.cur = Len(c1.blocks)]

\* 0x04 if
compile_if(c, f, bt) ==
    IF ~block_type_in_range(bt, f) THEN Raise(c, "IndexError")
    ELSE IF c.stack = <<>> THEN Raise(c, Underflow)
    ELSE LET cond == c.stack[Len(c.stack)]
             then_label == new_label(c, "then", 0)
             else_label == new_label(c, "else", 1)
             end_label == new_label(c, "if_end", 2)
             c1 == [c EXCEPT !.stack = SubSeq(@, 1, Len(@) - 1),
                             !.label_counter = @ + 3]
             c2 == add_block(
                     set_terminator(c1, c.cur,
                                    Branch(cond.name, then_label, else_label)),
                     then_label)
         IN  [c2 EXCEPT
                !.control = Append(@, ControlFrame("if", Len(c1.stack),
                                       _block_type_to_results(bt, f),
                                       end_label, else_label, end_label)),
                !.cur = Len(c2.blocks)]

\* the names of the n values on top of the stack, deepest first, as the
\* peek_at loops of else and end collect them
top_names(c, n) == [i \in 1..n |-> peek_at(c, n - i).name]

\* 0x05 else
compile_else(c) ==
    IF c.control = <<>> THEN Raise(c, "IndexError")
    ELSE LET top == Len(c.control)
             frame == c.control[top]
             n == Len(frame.result_types)
         IN
         IF frame.kind # "if" THEN Raise(c, "ValueError: else without matching if")
         ELSE IF n > Len(c.stack) THEN Raise(c, Underflow)
         ELSE LET c1 == IF n > 0
                        THEN [c EXCEPT
                                !.control[top].has_then_values = TRUE,
                                !.control[top].then_values = top_names(c, n),
                                !.control[top].then_label = c.blocks[c.cur].name,
                                !.stack = pop_n_rest(@, n)]
                        ELSE c
                  c2 == [set_terminator(c1, c.cur, Jump(frame.end_label))
                            EXCEPT !.control[top].at_else_block =
                                        c.blocks[c.cur].name,
                                   !.control[top].at_else_stack = c.stack]
              IN  IF frame.else_label = NONE THEN Raise(c2, "AssertionError")
                  ELSE LET c3 == add_block(c2, frame.else_label)
                       IN  [c3 EXCEPT !.control[top].else_label = NONE,
                                      !.cur = Len(c3.blocks)]

\* 0x0B end, the frame is an if whose else has not been seen: the current
\* block jumps to the end label and an else block that does the same is
\* added
end_if_without_else(c, frame) ==
    IF frame.kind = "if" /\ frame.else_label # NONE
    THEN LET c1 == add_block(set_terminator(c, c.cur, Jump(frame.end_label)),
                             frame.else_label)
         IN  set_terminator(c1, Len(c1.blocks), Jump(frame.end_label))
    ELSE c

\* 0x0B end, the frame is an if/else with results: one phi per result in
\* the end block
end_with_phis(c, frame) ==
    LET n == Len(frame.result_types)
        else_values == top_names(c, n)
        else_label_for_phi == c.blocks[c.cur].name
        c1 == [c EXCEPT !.stack = pop_n_rest(@, n)]
        c2 == add_block(set_terminator(c1, c.cur, Jump(frame.label_name)),
                        frame.label_name)
        end_block == Len(c2.blocks)
        phis == [i \in 1..n |->
                    Phi(Temp(c.temp_counter + i - 1),
                        <<<<frame.then_label, frame.then_values[i]>>,
                          <<else_label_for_phi, else_values[i]>>>>)]
    IN  [c2 EXCEPT
            !.stack = @ \o [i \in 1..n |->
                              StackValue(Temp(c.temp_counter + i - 1),
                                         frame.result_types[i])],
            !.temp_counter = @ + n,
            !.blocks[end_block].phis = phis,
            !.cur = end_block]

\* 0x0B end
compile_end(c) ==
    IF c.control = <<>> THEN c
    ELSE LET frame == c.control[Len(c.control)]
             c1 == end_if_without_else(
                       [c EXCEPT !.control = SubSeq(@, 1, Len(@) - 1)], frame)
         IN
         IF frame.kind = "if" /\ frame.has_then_values /\ frame.result_types # <<>>
         THEN IF Len(frame.result_types) > Len(c1.stack)
              THEN Raise(c1, Underflow)
              ELSE end_with_phis(c1, frame)
         ELSE IF frame.kind # "loop"
         THEN LET c2 == IF c1.blocks[c1.cur].terminator = NoTerminator
                        THEN set_terminator(c1, c1.cur, Jump(frame.label_name))
                        ELSE c1
                  c3 == add_block(c2, frame.label_name)
              IN  [c3 EXCEPT !.cur = Len(c3.blocks)]
         ELSE c1

\* depth counted from the outermost frame
get_branch_target_from_bottom(c, depth) == c.control[depth + 1]

\* FunctionContext.get_branch_target, for depth < len(control_stack)
get_branch_target(c, depth) == c.control[Len(c.control) - depth]

BranchDepthError == "ValueError: branch depth exceeds control stack"

\* control._emit_branch
_emit_branch(c, b, target) == set_terminator(c, b, Jump(target.label_name))

\* 0x0C br
compile_br(c, depth) ==
    IF depth >= Len(c.control) THEN Raise(c, BranchDepthError)
    ELSE _emit_branch(c, c.cur, get_branch_target(c, depth))

\* 0x0D br_if
compile_br_if(c, depth) ==
    IF c.stack = <<>> THEN Raise(c, Underflow)
    ELSE IF depth >= Len(c.control) THEN Raise(c, BranchDepthError)
    ELSE LET cond == c.stack[Len(c.stack)]
             cont_label == new_label(c, "br_if_cont", 0)
             branch_label == new_label(c, "br_if_branch", 1)
             c1 == [c EXCEPT !.stack = SubSeq(@, 1, Len(@) - 1),
                             !.label_counter = @ + 2]
             c2 == add_block(
                     set_terminator(c1, c.cur,
                                    Branch(cond.name, branch_label, cont_label)),
                     branch_label)
             c3 == add_block(
                     _emit_branch(c2, Len(c2.blocks),
                                  get_branch_target(c, depth)),
                     cont_label)
         IN  [c3 EXCEPT !.cur = Len(c3.blocks)]

\* control._emit_return
_emit_return(c, f) ==
    LET n == Len(f.results)
    IN  IF n = 0 THEN set_terminator(c, c.cur, Return(NONE))
        ELSE IF n > Len(c.stack) THEN Raise(c, Underflow)
        ELSE IF n = 1
        THEN set_terminator([c EXCEPT !.stack = SubSeq(@, 1, Len(@) - 1)],
                            c.cur, Return(c.stack[Len(c.stack)].name))
        ELSE Raise([c EXCEPT !.stack = pop_n_rest(@, n)],
                   "AttributeError: mv_out_params")

\* FunctionContext.get_local_addr, for an allocated local
get_local_addr(c, i) == c.local_addrs[i + 1]

\* control._emit_return_call; func_name is the callee's symbol
_emit_return_call(c, f, target_func_idx, func_name) ==
    LET target_func_type == get_func_type(f, target_func_idx)
        n == Len(target_func_type.params)
        args == pop_n_values(c.stack, n)
        c1 == [c EXCEPT !.stack = pop_n_rest(@, n)]
    IN
    IF n > Len(c.stack) THEN Raise(c, Underflow)
    ELSE IF Len(args) # n THEN Raise(c1, "ValueError: zip")
    ELSE IF target_func_idx = f.idx
    THEN set_terminator(
            [c1 EXCEPT !.blocks[c.cur].instructions =
                 @ \o [i \in 1..n |->
                          Store(args[i].name, get_local_addr(c, i - 1))]],
            c.cur, Jump("entry"))
    ELSE LET call_args == [i \in 1..n |-> args[i].name]
         IN
         IF target_func_type.results = <<>>
         THEN set_terminator(append(c1, c.cur, Call(func_name, call_args, "")),
                             c.cur, Return(NONE))
         ELSE IF Len(target_func_type.results) = 1
         THEN set_terminator(
                 append([c1 EXCEPT !.temp_counter = @ + 1], c.cur,
                        Call(func_name, call_args, Temp(c.temp_counter))),
                 c.cur, Return(Temp(c.temp_counter)))
         ELSE Raise(c1, "AttributeError: mv_out_params")

\* numeric 0x41 i32.const
compile_i32_const(c) ==
    append(new_temp(c, I32), c.cur, Copy(Temp(c.temp_counter)))

\* 0x1A drop
compile_drop(c) ==
    IF c.stack = <<>> THEN Raise(c, Underflow)
    ELSE [c EXCEPT !.stack = SubSeq(@, 1, Len(@) - 1)]

\* codegen._compile_instruction: the handler of the opcode runs; a control
\* opcode from 0x12 up whose handler returns None falls through every
\* later handler to the final raise
_compile_instruction(c, f, ins, func_name) ==
    LET r == CASE ins.op = "unreachable" -> compile_unreachable(c)
               [] ins.op = "block" -> compile_block(c, f, ins.bt)
               [] ins.op = "loop" -> compile_loop(c, f, ins.bt)
               [] ins.op = "if" -> compile_if(c, f, ins.bt)
               [] ins.op = "else" -> compile_else(c)
               [] ins.op = "end" -> compile_end(c)
               [] ins.op = "br" -> compile_br(c, ins.arg)
               [] ins.op = "br_if" -> compile_br_if(c, ins.arg)
               [] ins.op = "return" -> _emit_return(c, f)
               [] ins.op = "return_call" ->
                      LET c1 == _emit_return_call(c, f, ins.arg, func_name)
                      IN  IF c1.exc # "none" THEN c1
                          ELSE Raise(c1, "CompileError: unhandled opcode: 0x12")
               [] ins.op = "i32.const" -> compile_i32_const(c)
               [] ins.op = "drop" -> compile_drop(c)
               [] ins.op = "0x0a" -> c
               [] ins.op = "0xfe" -> Raise(c, "CompileError: unhandled opcode: 0xfe")
    IN  [r EXCEPT !.pos = @ + 1]

\* the FunctionContext and the IL function before _compile_function
NewFunction ==
    [pc |-> "start", exc |-> "none", pos |-> 0, stack |-> <<>>,
     temp_counter |-> 0, control |-> <<>>, label_counter |-> 0,
     blocks |-> <<>>, cur |-> 0, name |-> <<>>, params |-> <<>>,
     ret_type |-> NONE, local_addrs |-> <<>>]

\* codegen._compile_function up to the loop over the body: signature,
\* entry block, one stack slot per local
begin_function(c, f, func_name) ==
    IF Len(f.results) >= 2
    THEN Raise([c EXCEPT !.name = func_name],
               "CompileError: multi-value return not yet supported")
    ELSE LET n == Len(f.params)
             addr(i) == "local_addr" \o ToString(i)
             entry == [Block("entry") EXCEPT !.instructions =
                          [i \in 1..n |-> Alloc(addr(i - 1))] \o
                          [i \in 1..n |->
                              Store("p" \o ToString(i - 1), addr(i - 1))]]
         IN  [c EXCEPT !.pc = "run",
                       !.name = func_name,
                       !.params = [i \in 1..n |-> "p" \o ToString(i - 1)],
                       !.ret_type = IF f.results = <<>> THEN NONE ELSE "w",
                       !.local_addrs = [i \in 1..n |-> addr(i - 1)],
                       !.blocks = <<entry>>,
                       !.cur = 1]

\* codegen._compile_function after the loop: the implicit return
finish_function(c, f) ==
    LET c1 == [c EXCEPT !.pc = "done"]
    IN  IF c.blocks[c.cur].terminator # NoTerminator THEN c1
        ELSE IF f.results = <<>> THEN set_terminator(c1, c.cur, Return(NONE))
        ELSE IF Len(c.stack) > 0
        THEN set_terminator([c1 EXCEPT !.stack = SubSeq(@, 1, Len(@) - 1)],
                            c.cur, Return(c.stack[Len(c.stack)].name))
        ELSE set_terminator(c1, c.cur, Return(NONE))

\* ---- the validator's walk (waq/validator) ----
\* validator ControlFrame
v_frame(kind, start_depth, result_types) ==
    [kind |-> kind, start_depth |-> start_depth,
     result_types |-> result_types, unreachable |-> FALSE]

\* the Python slice s[:n], for n >= 0
slice_to(s, n) == SubSeq(s, 1, IF n < Len(s) THEN n ELSE Len(s))

\* ValidationContext.error
v_error(v) == [v EXCEPT !.errors = @ + 1]

\* ValidationContext.pop_value: the type popped (None on underflow, the
\* dummy I32 in unreachable code) and the context after
v_pop_value(v) ==
    IF v.value_stack = <<>>
    THEN [val |-> IF v.control_stack # <<>>
                     /\ v.control_stack[Len(v.control_stack)].unreachable
                  THEN I32 ELSE NONE,
          v |-> v]
    ELSE [val |-> v.value_stack[Len(v.value_stack)],
          v |-> [v EXCEPT !.value_stack = SubSeq(@, 1, Len(@) - 1)]]

\* ValidationContext.pop_expect
v_pop_expect(v, expected) ==
    LET r == v_pop_value(v)
    IN  IF r.val = NONE \/ r.val # expected THEN v_error(r.v) ELSE r.v

\* ValidationContext.push_control
v_push_control(v, kind, result_types) ==
    [v EXCEPT !.control_stack =
        Append(@, v_frame(kind, Len(v.value_stack), result_types))]

\* ValidationContext.pop_control
v_pop_control(v) ==
    IF v.control_stack = <<>> THEN v_error(v)
    ELSE LET frame == v.control_stack[Len(v.control_stack)]
             v1 == [v EXCEPT !.control_stack = SubSeq(@, 1, Len(@) - 1)]
         IN  IF ~frame.unreachable
                /\ Len(v.value_stack) #
                      frame.start_depth + Len(frame.result_types)
             THEN v_error(v1) ELSE v1

\* ValidationContext.reset_for_function
reset_for_function(f) ==
    [value_stack |-> <<>>,
     control_stack |-> <<v_frame("function", 0, f.results)>>,
     errors |-> 0]

\* control_stack[-1].unreachable = True, when there is a frame
v_set_unreachable(v) ==
    IF v.control_stack = <<>> THEN v
    ELSE [v EXCEPT !.control_stack[Len(v.control_stack)].unreachable = TRUE]

\* validator._block_type_to_results and the error it records
v_block_type_to_results(bt, f) ==
    IF block_type_in_range(bt, f) THEN _block_type_to_results(bt, f) ELSE <<>>

v_block_type_checked(v, bt, f) ==
    IF block_type_in_range(bt, f) THEN v ELSE v_error(v)

\* the pops of return, last result first
RECURSIVE v_pop_results(_, _)
v_pop_results(v, results) ==
    IF results = <<>> THEN v
    ELSE v_pop_results(v_pop_expect(v, results[Len(results)]),
                       SubSeq(results, 1, Len(results) - 1))

\* validator._validate_instruction.  Opcode 0x12 is not known to it: it
\* records a warning, consumes no immediate, and so validates the index
\* byte that follows as the next opcode (0x00 unreachable, 0x01 nop)
_validate_instruction(v, f, ins) ==
    CASE ins.op = "unreachable" -> v_set_unreachable(v)
      [] ins.op \in {"block", "loop"} ->
            v_push_control(v_block_type_checked(v, ins.bt, f), ins.op,
                           v_block_type_to_results(ins.bt, f))
      [] ins.op = "if" ->
            v_push_control(
                v_pop_expect(v_block_type_checked(v, ins.bt, f), I32),
                "if", v_block_type_to_results(ins.bt, f))
      [] ins.op = "else" ->
            IF v.control_stack = <<>>
               \/ v.control_stack[Len(v.control_stack)].kind # "if"
            THEN v_error(v)
            ELSE [v EXCEPT !.value_stack =
                    slice_to(@, v.control_stack[Len(v.control_stack)].start_depth)]
      [] ins.op = "end" -> v_pop_control(v)
      [] ins.op = "br" ->
            v_set_unreachable(IF ins.arg >= Len(v.control_stack)
                              THEN v_error(v) ELSE v)
      [] ins.op = "br_if" -> v_pop_expect(v, I32)
      [] ins.op = "return" -> v_set_unreachable(v_pop_results(v, f.results))
      [] ins.op = "return_call" ->
            IF ins.arg = 0 THEN v_set_unreachable(v) ELSE v
      [] ins.op = "i32.const" -> [v EXCEPT !.value_stack = Append(@, I32)]
      [] ins.op = "drop" -> v_pop_value(v).v
      [] ins.op \in {"0x0a", "0xfe"} -> v

\* validator._validate_function_body after the loop: the final depth check
v_finish(v, f) ==
    IF v.control_stack # <<>>
       /\ ~v.control_stack[1].unreachable
       /\ Len(v.value_stack) # v.control_stack[1].start_depth + Len(f.results)
    THEN v_error(v) ELSE v

\* ---- the specification of the walk ----
BlockTypes == {BT_EMPTY, BT_VAL(I32), BT_IDX(2)}

\* the instruction processed last, with the code generator's current
\* block, value stack and innermost control frame when it was read
Executed(ins, c) ==
    [op |-> ins.op, bt |-> ins.bt, arg |-> ins.arg,
     block |-> c.blocks[c.cur].name, stack |-> c.stack,
     frame |-> IF c.control = <<>> THEN NoFrame ELSE c.control[Len(c.control)]]

NoIns ==
    [op |-> "none", bt |-> BT_EMPTY, arg |-> 0, block |-> NONE,
     stack |-> <<>>, frame |-> NoFrame]

\* the functions compiled: index 0 or 1 of a two-function module, up to
\* MaxParams i32 parameters, up to two i32 results
SampleFunctions ==
    [idx : 0..1,
     params : {[i \in 1..n |-> I32] : n \in 0..MaxParams},
     results : {[i \in 1..n |-> I32] : n \in 0..2}]

Init ==
    /\ fn \in SampleFunctions
    /\ mod = WalkModule
    /\ func_names = <<>>
    /\ cg = NewFunction
    /\ vc = reset_for_function(fn)
    /\ last = NoIns
    /\ rd = IdleReader
    /\ leb = IdleLeb
    /\ pm = IdleParse

\* _compile_function starts on the function
CompileFunction ==
    /\ cg.pc = "start"
    /\ cg' = begin_function(cg, fn, get_func_name(mod, func_names, fn.idx).name)
    /\ func_names' = get_func_name(mod, func_names, fn.idx).cache
    /\ UNCHANGED <<rd, leb, pm, mod, vc, fn, last>>

\* the callee's symbol is looked up when _emit_return_call reaches its
\* call path
LooksUpCallee(ins) ==
    /\ ins.op = "return_call"
    /\ ins.arg # fn.idx
    /\ Len(get_func_type(fn, ins.arg).params) <= Len(cg.stack)
    /\ Len(pop_n_values(cg.stack, Len(get_func_type(fn, ins.arg).params)))
          = Len(get_func_type(fn, ins.arg).params)

\* one instruction of a body of at most limit instructions, read by both
\* walks
StepWithin(ins, limit) ==
    /\ cg.pc = "run"
    /\ vc.errors = 0
    /\ cg.pos < limit
    /\ cg' = _compile_instruction(cg, fn, ins,
                                  get_func_name(mod, func_names, ins.arg).name)
    /\ vc' = _validate_instruction(vc, fn, ins)
    /\ func_names' = IF LooksUpCallee(ins)
                     THEN get_func_name(mod, func_names, ins.arg).cache
                     ELSE func_names
    /\ last' = Executed(ins, cg)
    /\ UNCHANGED <<rd, leb, pm, mod, fn>>

Step(ins) == StepWithin(ins, MaxBody)

Unreachable == Step(Ins("unreachable", BT_EMPTY, 0))

OpenBlock ==
    /\ Len(cg.control) < MaxNest
    /\ \E bt \in BlockTypes : Step(Ins("block", bt, 0))

OpenLoop ==
    /\ Len(cg.control) < MaxNest
    /\ \E bt \in BlockTypes : Step(Ins("loop", bt, 0))

OpenIf ==
    /\ Len(cg.control) < MaxNest
    /\ \E bt \in BlockTypes : Step(Ins("if", bt, 0))

Else == Step(Ins("else", BT_EMPTY, 0))

End == Step(Ins("end", BT_EMPTY, 0))

Br == \E depth \in 0..1 : Step(Ins("br", BT_EMPTY, depth))

BrIf == \E depth \in 0..1 : Step(Ins("br_if", BT_EMPTY, depth))

ReturnOp == Step(Ins("return", BT_EMPTY, 0))

ReturnCall == \E func_idx \in 0..1 : Step(Ins("return_call", BT_EMPTY, func_idx))

I32Const ==
    /\ Len(cg.stack) < MaxStack
    /\ Step(Ins("i32.const", BT_EMPTY, 0))

Drop == Step(Ins("drop", BT_EMPTY, 0))

\* the reader is at the end of the body: both walks finish
\* an opcode that no instruction translator implements: 0x0A, below 0x12,
\* and 0xFE, above
Unimplemented == \E op \in {"0x0a", "0xfe"} : Step(Ins(op, BT_EMPTY, 0))

Finish ==
    /\ cg.pc = "run"
    /\ vc.errors = 0
    /\ cg' = finish_function(cg, fn)
    /\ vc' = v_finish(vc, fn)
    /\ UNCHANGED <<rd, leb, pm, mod, func_names, fn, last>>

Next ==
    \/ CompileFunction
    \/ Unreachable
    \/ OpenBlock
    \/ OpenLoop
    \/ OpenIf
    \/ Else
    \/ End
    \/ Br
    \/ BrIf
    \/ ReturnOp
    \/ ReturnCall
    \/ I32Const
    \/ Drop
    \/ Unimplemented
    \/ Finish

Spec == Init /\ [][Next]_vars

\* the body validated and was compiled to its end; its last instruction
\* was the end that closes the function
ValidatedAndCompiled ==
    /\ cg.pc = "done"
    /\ vc.errors = 0
    /\ vc.control_stack = <<>>
    /\ last.op = "end"

(***************************************************************************)
(* C1: in the IL function produced for a body that validates, every block  *)
(* has a terminator and each block's terminator was assigned exactly once. *)
(***************************************************************************)
C1_TerminatorSetOnce ==
    ValidatedAndCompiled =>
        \A b \in 1..Len(cg.blocks) :
            /\ cg.blocks[b].terminator # NoTerminator
            /\ cg.blocks[b].sets = 1

(***************************************************************************)
(* C2: when the compilation of a body that validates finishes, the code    *)
(* generator's value stack is empty.                                       *)
(***************************************************************************)
C2_StackEmptyAtFinish ==
    ValidatedAndCompiled => cg.stack = <<>>

\* the last instruction was a return_call of the compiled function itself
\* with its arguments on the stack
SelfTailCall ==
    /\ last.op = "return_call"
    /\ last.arg = fn.idx
    /\ Len(last.stack) >= Len(fn.params)

(***************************************************************************)
(* C4: a return_call of the function's own index compiles to one store per *)
(* parameter into the parameter's slot followed by a jump to the entry     *)
(* label, and the IL holds no call of the function's own symbol.           *)
(***************************************************************************)
C4_SelfTailCallIsJump ==
    SelfTailCall =>
        LET n == Len(fn.params)
            b == cg.blocks[cg.cur]
            k == Len(b.instructions)
        IN  /\ cg.exc = "none"
            /\ b.terminator = Jump("entry")
            /\ k >= n
            /\ \A i \in 1..n :
                  b.instructions[k - n + i] =
                     Store(last.stack[Len(last.stack) - n + i].name,
                           cg.local_addrs[i])
            /\ \A j \in 1..Len(cg.blocks) :
                  \A m \in 1..Len(cg.blocks[j].instructions) :
                     ~(/\ cg.blocks[j].instructions[m].op = "call"
                       /\ cg.blocks[j].instructions[m].target = cg.name)

(***************************************************************************)
(* C5: a function with n >= 2 results compiles: the IL function returns    *)
(* the first result and takes n - 1 pointer parameters after its own.      *)
(***************************************************************************)
C5_MultiValueCompiles ==
    (Len(fn.results) >= 2 /\ cg.pc # "start") =>
        /\ cg.exc # "CompileError: multi-value return not yet supported"
        /\ cg.ret_type = "w"
        /\ Len(cg.params) = Len(fn.params) + Len(fn.results) - 1

(***************************************************************************)
(* The walk restricted to the instructions that build if/else/end, over    *)
(* longer bodies: constants, if with each block type, else, end, a void    *)
(* block to nest, drop and br.                                             *)
(***************************************************************************)
MaxPhiBody == 8

PhiFunctions ==
    [idx : {0}, params : {<<>>}, results : {<<>>, <<I32>>}]

InitPhi ==
    /\ fn \in PhiFunctions
    /\ mod = WalkModule
    /\ func_names = <<>>
    /\ cg = NewFunction
    /\ vc = reset_for_function(fn)
    /\ last = NoIns
    /\ rd = IdleReader
    /\ leb = IdleLeb
    /\ pm = IdleParse

PhiConst ==
    /\ Len(cg.stack) < MaxStack
    /\ StepWithin(Ins("i32.const", BT_EMPTY, 0), MaxPhiBody)

PhiIf ==
    /\ Len(cg.control) < MaxNest
    /\ \E bt \in BlockTypes : StepWithin(Ins("if", bt, 0), MaxPhiBody)

PhiBlock ==
    /\ Len(cg.control) < MaxNest
    /\ StepWithin(Ins("block", BT_EMPTY, 0), MaxPhiBody)

PhiElse == StepWithin(Ins("else", BT_EMPTY, 0), MaxPhiBody)

PhiEnd == StepWithin(Ins("end", BT_EMPTY, 0), MaxPhiBody)

PhiDrop == StepWithin(Ins("drop", BT_EMPTY, 0), MaxPhiBody)

PhiBr == \E depth \in 0..1 : StepWithin(Ins("br", BT_EMPTY, depth), MaxPhiBody)

NextPhi ==
    \/ CompileFunction
    \/ PhiConst
    \/ PhiIf
    \/ PhiBlock
    \/ PhiElse
    \/ PhiEnd
    \/ PhiDrop
    \/ PhiBr
    \/ Finish

SpecPhi == InitPhi /\ [][NextPhi]_vars

\* the last instruction was an end that closed, without raising, an if
\* whose else was processed and whose block type has results
ClosedIfElseWithResults ==
    /\ last.op = "end"
    /\ cg.exc = "none"
    /\ last.frame.kind = "if"
    /\ last.frame.at_else_block # NONE
    /\ last.frame.result_types # <<>>

MaxTail == 2

\* a count or length too large to be kept: at least 2^14, more than any
\* input has bytes
HugeValue == 128 * 128


\* the bytes one LEB128 read consumes: read_u32_leb128, read_s32_leb128
\* and read_s64_leb128 stop at a byte without the continuation bit, and
\* raise at the end of the data or when shift reaches limit
RECURSIVE leb_extent(_, _, _)
leb_extent(r, shift, limit) ==
    IF at_end(r) THEN [ok |-> FALSE, rd |-> r]
    ELSE IF NextByte(r) \div 128 = 0 THEN [ok |-> TRUE, rd |-> Advance(r, 1)]
    ELSE IF shift + 7 >= limit THEN [ok |-> FALSE, rd |-> Advance(r, 1)]
    ELSE leb_extent(Advance(r, 1), shift + 7, limit)

\* the value of the LEB128 integer at r, its byte k first, HugeValue
\* standing for every value from HugeValue up
RECURSIVE leb_value(_, _)
leb_value(r, k) ==
    IF at_end(r) THEN 0
    ELSE LET low == NextByte(r) % 128
             high == IF NextByte(r) \div 128 = 0 THEN 0
                     ELSE leb_value(Advance(r, 1), k + 1)
         IN  IF k >= 2 THEN (IF low = 0 /\ high = 0 THEN 0 ELSE HugeValue)
             ELSE IF low + 128 * high >= HugeValue THEN HugeValue
             ELSE low + 128 * high

\* body applied to the value of x: "v = x" followed by the code in body
Bind(x, body(_)) == CHOOSE out \in {body(v) : v \in {x}} : TRUE

\* read_u32_leb128 with its result as a number: -> [ok, rd, value]
read_u32(r) ==
    Bind(leb_extent(r, 0, U32ShiftLimit),
         LAMBDA e : [ok |-> e.ok, rd |-> e.rd, value |-> leb_value(r, 0)])

\* bytes.decode("utf-8") succeeds; the sampled bytes hold no lead byte of a
\* multi-byte sequence, so a byte from 0x80 up is invalid
valid_utf8(b) == \A i \in 1..Len(b) : b[i] < 128

\* BinaryReader.read_name, after the length n: the bytes and their decoding
read_name_data(n, data) ==
    IF ~data.ok \/ ~valid_utf8(data.bytes)
    THEN [ok |-> FALSE, name |-> <<>>, rd |-> data.rd]
    ELSE [ok |-> TRUE, name |-> data.bytes, rd |-> data.rd]

\* BinaryReader.read_name: -> [ok, name, rd]
read_name(r) ==
    Bind(read_u32(r),
         LAMBDA n : IF ~n.ok THEN [ok |-> FALSE, name |-> <<>>, rd |-> n.rd]
                    ELSE Bind(read_bytes(n.rd, n.value),
                              LAMBDA data : read_name_data(n, data)))

\* ValueType(byte) succeeds: the encodings of parser/types.py
ValueTypeBytes == {127, 126, 125, 124, 112, 111, 123, 110, 109, 108, 107, 106,
                   115, 114, 113, 120, 119}

\* BinaryReader.read_value_type
read_value_type(r) ==
    IF at_end(r) THEN [ok |-> FALSE, rd |-> r]
    ELSE [ok |-> NextByte(r) \in ValueTypeBytes, rd |-> Advance(r, 1)]

\* BinaryReader.read_block_type, by the byte it peeks at
read_block_type(r) ==
    IF at_end(r) THEN [ok |-> FALSE, rd |-> r]
    ELSE IF NextByte(r) = 64 THEN [ok |-> TRUE, rd |-> Advance(r, 1)]
    ELSE IF NextByte(r) \in {127, 126, 125, 124, 112, 111}
    THEN read_value_type(r)
    ELSE leb_extent(r, 0, U32ShiftLimit)

\* BinaryReader.read_limits after the flag byte and min: max, when bit
\* 0x01 of the flags is set (max = -1 stands for None)
read_limits_max(flags, min_val, max_val) ==
    IF ~min_val.ok
    THEN [ok |-> FALSE, rd |-> min_val.rd, flags |-> flags, min |-> 0, max |-> -1]
    ELSE IF flags % 2 = 0
    THEN [ok |-> TRUE, rd |-> min_val.rd, flags |-> flags,
          min |-> min_val.value, max |-> -1]
    ELSE [ok |-> max_val.ok, rd |-> max_val.rd, flags |-> flags,
          min |-> min_val.value, max |-> max_val.value]

\* BinaryReader.read_limits keeps flags here so that a memory entry shows
\* the flag byte it was decoded from
read_limits(r) ==
    IF at_end(r) THEN [ok |-> FALSE, rd |-> r, flags |-> 0, min |-> 0, max |-> -1]
    ELSE Bind(read_u32(Advance(r, 1)),
              LAMBDA min_val :
                  Bind(read_u32(min_val.rd),
                       LAMBDA max_val :
                           read_limits_max(NextByte(r), min_val, max_val)))

\* MemoryType(limits): is_memory64 is left at its default
MemoryType(limits) ==
    [ok |-> limits.ok, rd |-> limits.rd,
     memory |-> [min |-> limits.min, max |-> limits.max,
                 is_memory64 |-> FALSE, flags |-> limits.flags]]

\* BinaryReader.read_memory_type
read_memory_type(r) == Bind(read_limits(r), LAMBDA limits : MemoryType(limits))

\* BinaryReader.read_table_type
read_table_type(r) ==
    IF at_end(r) THEN [ok |-> FALSE, rd |-> r]
    ELSE IF NextByte(r) \notin {112, 111} THEN [ok |-> FALSE, rd |-> Advance(r, 1)]
    ELSE Bind(read_limits(Advance(r, 1)),
              LAMBDA limits : [ok |-> limits.ok, rd |-> limits.rd])

\* BinaryReader.read_global_type
read_global_type(r) ==
    IF at_end(r) THEN [ok |-> FALSE, rd |-> r]
    ELSE IF NextByte(r) \notin ValueTypeBytes \/ at_end(Advance(r, 1))
    THEN [ok |-> FALSE, rd |-> Advance(r, 1)]
    ELSE [ok |-> TRUE, rd |-> Advance(r, 2)]

\* WasmModule() as parse_module creates it
NewModule ==
    [imports |-> <<>>, exports |-> <<>>, memories |-> <<>>, globals |-> <<>>,
     function_names |-> <<>>]

NoReader == [data |-> <<>>, pos |-> 0]

\* parse_module after the header check
DecodeStart ==
    [pc |-> "sections", status |-> "running", sec |-> NoReader,
     sub |-> NoReader, fsub |-> NoReader, count |-> 0, fcount |-> 0,
     depth |-> 0, start |-> 0, names |-> <<>>, loop |-> "none", iter |-> 0,
     gen |-> [sec |-> 0, sub |-> 0, fsub |-> 0]]

\* an exception leaves parse_module
Fail(p, e) == [p EXCEPT !.status = e]

\* one iteration of the named loop is complete
Iterated(p, loop) == [p EXCEPT !.loop = loop, !.iter = @ + 1]

\* the section parser _parse_section dispatches to, by section id; an id
\* that SectionId does not know is skipped
SectionParser(id) ==
    CASE id = 0 -> "custom"
      [] id = 2 -> "import_count"
      [] id = 5 -> "memory_count"
      [] id = 6 -> "global_count"
      [] id = 7 -> "export_count"
      [] id = DATA_COUNT -> "data_count"
      [] OTHER -> "sections"

\* parse_module, one iteration of "while not reader.at_end" up to the call
\* of _parse_section, after id and size: the slice
section_slice(p, id, slice) ==
    IF ~slice.ok THEN [rd |-> slice.rd, pm |-> Fail(p, "ParseError")]
    ELSE [rd |-> slice.rd,
          pm |-> [Iterated(p, "sections") EXCEPT
                    !.sec = [data |-> slice.bytes, pos |-> 0],
                    !.gen.sec = @ + 1,
                    !.pc = SectionParser(id)]]

\* parse_module, one iteration of "while not reader.at_end" up to the call
\* of _parse_section: id, size, slice
section_header(r, p) ==
    Bind(read_u32(Advance(r, 1)),
         LAMBDA size :
             IF ~size.ok THEN [rd |-> size.rd, pm |-> Fail(p, "ParseError")]
             ELSE Bind(read_bytes(size.rd, size.value),
                       LAMBDA slice : section_slice(p, NextByte(r), slice)))

\* count = reader.read_u32_leb128() in front of a "for _ in range(count)"
\* whose body is the step entry
vector_count(p, entry) ==
    Bind(read_u32(p.sec),
         LAMBDA count :
             IF ~count.ok THEN Fail([p EXCEPT !.sec = count.rd], "ParseError")
             ELSE [p EXCEPT !.sec = count.rd, !.count = count.value,
                            !.pc = IF count.value = 0 THEN "sections" ELSE entry])

\* the end of one iteration of a section's "for _ in range(count)", the
\* section's reader left at r
next_entry(p, r, loop, entry) ==
    [Iterated(p, loop) EXCEPT !.sec = r, !.count = @ - 1,
                              !.pc = IF p.count = 1 THEN "sections" ELSE entry]

\* what a read leaves: whether it succeeded, and the reader
extent(read) == [ok |-> read.ok, rd |-> read.rd]

\* the import's descriptor, by kind
read_import_desc(r, kind) ==
    CASE kind = 0 -> leb_extent(r, 0, U32ShiftLimit)
      [] kind = 1 -> read_table_type(r)
      [] kind = 2 -> Bind(read_memory_type(r), LAMBDA memory : extent(memory))
      [] kind = 3 -> read_global_type(r)

\* ImportKind(byte), ExportKind(byte) succeed: FUNC, TABLE, MEMORY, GLOBAL
IsKind(byte) == byte \in 0..3

\* _parse_import_section, one iteration up to the kind byte, after the
\* module name: the field name; both are kept in pm.names
import_field_name(p, mod_name, field_name) ==
    IF ~field_name.ok THEN Fail([p EXCEPT !.sec = field_name.rd], "ParseError")
    ELSE [p EXCEPT !.sec = field_name.rd,
                   !.names = <<mod_name.name, field_name.name>>,
                   !.pc = "import_kind"]

\* _parse_import_section, one iteration up to the kind byte
import_names(p) ==
    Bind(read_name(p.sec),
         LAMBDA mod_name :
             IF ~mod_name.ok
             THEN Fail([p EXCEPT !.sec = mod_name.rd], "ParseError")
             ELSE Bind(read_name(mod_name.rd),
                       LAMBDA field_name :
                           import_field_name(p, mod_name, field_name)))

\* _parse_import_section, the end of the iteration: the import is appended
import_append(p, m, kind, desc) ==
    IF ~desc.ok
    THEN [pm |-> Fail([p EXCEPT !.sec = desc.rd], "ParseError"), mod |-> m]
    ELSE [pm |-> next_entry(p, desc.rd, "imports", "import_names"),
          mod |-> [m EXCEPT !.imports =
                     Append(@, [module |-> p.names[1], name |-> p.names[2],
                                kind |-> kind])]]

\* _parse_import_section, the rest of the iteration: kind and descriptor
import_entry(p, m) ==
    IF at_end(p.sec)
    THEN [pm |-> Fail(p, "ParseError"), mod |-> m]
    ELSE IF ~IsKind(NextByte(p.sec))
    THEN [pm |-> Fail([p EXCEPT !.sec = Advance(p.sec, 1)], "ValueError"),
          mod |-> m]
    ELSE Bind(read_import_desc(Advance(p.sec, 1), NextByte(p.sec)),
              LAMBDA desc : import_append(p, m, NextByte(p.sec), desc))

\* _parse_export_section, one iteration after the name: kind and index
export_kind(p, m, name, r, index) ==
    IF at_end(r)
    THEN [pm |-> Fail([p EXCEPT !.sec = r], "ParseError"), mod |-> m]
    ELSE IF ~IsKind(NextByte(r))
    THEN [pm |-> Fail([p EXCEPT !.sec = Advance(r, 1)], "ValueError"), mod |-> m]
    ELSE IF ~index.ok
    THEN [pm |-> Fail([p EXCEPT !.sec = index.rd], "ParseError"), mod |-> m]
    ELSE [pm |-> next_entry(p, index.rd, "exports", "export_entry"),
          mod |-> [m EXCEPT !.exports =
                     Append(@, [name |-> name, kind |-> NextByte(r),
                                index |-> index.value])]]

\* _parse_export_section, one iteration
export_entry(p, m) ==
    Bind(read_name(p.sec),
         LAMBDA name :
             IF ~name.ok
             THEN [pm |-> Fail([p EXCEPT !.sec = name.rd], "ParseError"),
                   mod |-> m]
             ELSE Bind(read_u32(Advance(name.rd, 1)),
                       LAMBDA index :
                           export_kind(p, m, name.name, name.rd, index)))

\* _parse_memory_section, one element of read_vector(read_memory_type)
memory_entry(p, m) ==
    Bind(read_memory_type(p.sec),
         LAMBDA mem :
             IF ~mem.ok
             THEN [pm |-> Fail([p EXCEPT !.sec = mem.rd], "ParseError"),
                   mod |-> m]
             ELSE [pm |-> next_entry(p, mem.rd, "memories", "memory_entry"),
                   mod |-> [m EXCEPT !.memories = Append(@, mem.memory)]])

\* _parse_global_section, one iteration up to the call of _read_init_expr
global_entry(p) ==
    Bind(read_global_type(p.sec),
         LAMBDA gt :
             IF ~gt.ok THEN Fail([p EXCEPT !.sec = gt.rd], "ParseError")
             ELSE [p EXCEPT !.sec = gt.rd, !.start = gt.rd.pos, !.depth = 1,
                            !.pc = "init_expr"])

\* the immediate that _read_init_expr reads after the opcode
init_expr_immediate(r, opcode) ==
    CASE opcode \in {2, 3, 4} -> read_block_type(r)
      [] opcode \in {65, 66} -> leb_extent(r, 0, S64ShiftLimit)
      [] opcode = 67 -> Bind(read_bytes(r, 4), LAMBDA f32 : extent(f32))
      [] opcode = 68 -> Bind(read_bytes(r, 8), LAMBDA f64 : extent(f64))
      [] opcode \in {35, 210} -> leb_extent(r, 0, U32ShiftLimit)
      [] opcode = 208 -> [ok |-> ~at_end(r),
                          rd |-> IF at_end(r) THEN r ELSE Advance(r, 1)]
      [] OTHER -> [ok |-> TRUE, rd |-> r]

\* the init-expression scan that looks at the opcode without consuming it
peek_opcode(r) == r

\* the init-expression scan consumes the opcode: reader.read_byte()
read_opcode(r) == Advance(r, 1)

\* _read_init_expr, the depth after the opcode
init_expr_depth(depth, opcode) ==
    CASE opcode = 11 -> depth - 1
      [] opcode \in {2, 3, 4} -> depth + 1
      [] OTHER -> depth

\* _read_init_expr, the end of one iteration; at depth 0 the global is
\* appended and the section's loop goes on
init_expr_next(p, m, depth, imm) ==
    IF ~imm.ok
    THEN [pm |-> Fail([p EXCEPT !.sec = imm.rd], "ParseError"), mod |-> m]
    ELSE IF depth > 0
    THEN [pm |-> [Iterated(p, "init_expr") EXCEPT !.sec = imm.rd,
                                                  !.depth = depth],
          mod |-> m]
    ELSE [pm |-> [next_entry(p, imm.rd, "init_expr", "global_entry")
                    EXCEPT !.depth = 0],
          mod |-> [m EXCEPT !.globals =
                     Append(@, SubSeq(imm.rd.data, p.start + 1, imm.rd.pos))]]

\* _read_init_expr, one iteration of "while depth > 0"
init_expr_step(p, m) ==
    IF at_end(p.sec) THEN [pm |-> Fail(p, "ParseError"), mod |-> m]
    ELSE Bind(init_expr_immediate(read_opcode(p.sec), NextByte(p.sec)),
              LAMBDA imm :
                  init_expr_next(p, m, init_expr_depth(p.depth, NextByte(p.sec)),
                                 imm))

\* "name" in UTF-8
NameSectionName == <<110, 97, 109, 101>>

\* the bytes of r from its position on: read_bytes(remaining)
rest_of(r) == SubSeq(r.data, r.pos + 1, Len(r.data))

\* _parse_custom_section: the name, the rest of the section as data, and
\* for the name section a reader of this data
custom_section(p) ==
    Bind(read_name(p.sec),
         LAMBDA name :
             IF ~name.ok THEN Fail([p EXCEPT !.sec = name.rd], "ParseError")
             ELSE IF name.name = NameSectionName /\ ~at_end(name.rd)
             THEN [p EXCEPT !.sec = Advance(name.rd, Len(rest_of(name.rd))),
                            !.sub = [data |-> rest_of(name.rd), pos |-> 0],
                            !.gen.sub = @ + 1, !.pc = "name_sub"]
             ELSE [p EXCEPT !.sec = Advance(name.rd, Len(rest_of(name.rd))),
                            !.pc = "sections"])

\* where _parse_name_section goes on when one subsection is done
after_subsection(sub) == IF at_end(sub) THEN "sections" ELSE "name_sub"

\* _parse_name_section, one iteration up to the loop over the function
\* names, after id, size and data: for id 1 the count
name_subsection_count(p, id, data, count) ==
    IF id # 1
    THEN [Iterated(p, "name_subsections") EXCEPT
            !.sub = data.rd, !.pc = after_subsection(data.rd)]
    ELSE IF ~count.ok
    THEN Fail([Iterated(p, "name_subsections") EXCEPT
                 !.sub = data.rd, !.fsub = count.rd, !.gen.fsub = @ + 1],
              "ParseError")
    ELSE [Iterated(p, "name_subsections") EXCEPT
            !.sub = data.rd, !.fsub = count.rd, !.gen.fsub = @ + 1,
            !.fcount = count.value,
            !.pc = IF count.value = 0 THEN after_subsection(data.rd)
                   ELSE "name_func"]

\* _parse_name_section, one iteration up to the loop over the function
\* names, after id and size: the subsection's data
name_subsection_data(p, id, data) ==
    IF ~data.ok THEN Fail([p EXCEPT !.sub = data.rd], "ParseError")
    ELSE Bind(read_u32([data |-> data.bytes, pos |-> 0]),
              LAMBDA count : name_subsection_count(p, id, data, count))

\* _parse_name_section, one iteration of "while not reader.at_end" up to
\* the loop over the function names: id, size, data, and for id 1 the count
name_subsection(p) ==
    Bind(read_u32(Advance(p.sub, 1)),
         LAMBDA size :
             IF ~size.ok THEN Fail([p EXCEPT !.sub = size.rd], "ParseError")
             ELSE Bind(read_bytes(size.rd, size.value),
                       LAMBDA data :
                           name_subsection_data(p, NextByte(p.sub), data)))

\* module.function_names[func_idx] = name
set_function_name(names, func_idx, name) ==
    IF \E i \in 1..Len(names) : names[i].func_idx = func_idx
    THEN [i \in 1..Len(names) |->
            IF names[i].func_idx = func_idx
            THEN [func_idx |-> func_idx, name |-> name] ELSE names[i]]
    ELSE Append(names, [func_idx |-> func_idx, name |-> name])

\* _parse_name_section, one iteration of the loop over the function names,
\* after the function index: the name
name_func_name(p, m, func_idx, name) ==
    IF ~name.ok
    THEN [pm |-> Fail([p EXCEPT !.fsub = name.rd], "ParseError"), mod |-> m]
    ELSE [pm |-> [Iterated(p, "function_names") EXCEPT
                    !.fsub = name.rd, !.fcount = @ - 1,
                    !.pc = IF p.fcount = 1 THEN after_subsection(p.sub)
                           ELSE "name_func"],
          mod |-> [m EXCEPT !.function_names =
                     set_function_name(@, func_idx.value, name.name)]]

\* _parse_name_section, one iteration of the loop over the function names
name_func_entry(p, m) ==
    Bind(read_u32(p.fsub),
         LAMBDA func_idx :
             IF ~func_idx.ok
             THEN [pm |-> Fail([p EXCEPT !.fsub = func_idx.rd], "ParseError"),
                   mod |-> m]
             ELSE Bind(read_name(func_idx.rd),
                       LAMBDA name : name_func_name(p, m, func_idx, name)))

\* _parse_section for DATA_COUNT: module.data_count = read_u32_leb128()
data_count(p) ==
    Bind(read_u32(p.sec),
         LAMBDA count :
             IF ~count.ok THEN Fail([p EXCEPT !.sec = count.rd], "ParseError")
             ELSE [p EXCEPT !.sec = count.rd, !.pc = "sections"])

\* section streams the inputs are cut from
SectionTemplates ==
    {<<2, 5, 1, 0, 0, 0, 0>>,                          \* import "" "" func 0
     <<2, 6, 1, 0, 0, 2, 4, 0>>,                       \* import memory, flag 4
     <<2, 6, 1, 0, 0, 1, 112, 0, 0>>,                  \* import table
     <<2, 6, 1, 0, 0, 3, 127, 0>>,                     \* import global
     <<5, 3, 1, 4, 0>>,                                \* memory, flag 4
     <<5, 4, 1, 5, 0, 1>>,                             \* memory, flag 5
     <<5, 5, 2, 0, 1, 1, 1, 2>>,                       \* memories, flags 0, 1
     <<7, 4, 1, 0, 0, 0>>,                             \* export "" func 0
     <<7, 5, 1, 1, 102, 255, 0>>,                      \* export "f", kind 0xFF
     <<6, 6, 1, 127, 0, 65, 0, 11>>,                   \* global i32.const 0
     <<6, 7, 1, 127, 0, 2, 64, 11, 11>>,               \* global, nested block
     <<0, 11, 4, 110, 97, 109, 101, 1, 4, 1, 0, 1, 102>>,  \* name section
     <<0, 2, 1, 102>>,                                 \* custom "f"
     <<13, 1, 7, 12, 1, 5>>}                           \* unknown id, data count

\* the bytes that may follow the sampled part of an input
TailBytes == {0, 1, 2, 4, 5, 11, 65, 127, 255}

\* the section ids whose parsers are modelled, and the ids SectionId does
\* not know
ModelledSectionIds == {0, 2, 5, 6, 7, DATA_COUNT} \cup 13..255

\* the section stream in r holds sections of modelled ids only
RECURSIVE only_modelled_sections(_)
only_modelled_sections(r) ==
    IF at_end(r) THEN TRUE
    ELSE LET step == section_header(r, DecodeStart)
         IN  /\ NextByte(r) \in ModelledSectionIds
             /\ \/ step.pm.status # "running"
                \/ only_modelled_sections(step.rd)

DecodeInputs ==
    {WASM_MAGIC \o <<1, 0, 0, 0>> \o Prefix(t, k) \o tail :
        t \in SectionTemplates, k \in 0..13, tail \in SeqsUpTo(TailBytes, MaxTail)}

InitDecode ==
    /\ \E input \in DecodeInputs :
         /\ only_modelled_sections([data |-> input, pos |-> 8])
         /\ rd = [data |-> input, pos |-> 0]
    /\ pm = [DecodeStart EXCEPT !.pc = "magic"]
    /\ leb = IdleLeb
    /\ mod = NewModule
    /\ func_names = <<>>
    /\ cg = IdleCg
    /\ vc = IdleVc
    /\ fn = IdleFn
    /\ last = IdleLast

Decoding(pc) == pm.status = "running" /\ pm.pc = pc

SectionHeader ==
    /\ Decoding("sections") /\ ~at_end(rd)
    /\ \E step \in {section_header(rd, pm)} : rd' = step.rd /\ pm' = step.pm
    /\ UNCHANGED <<leb, mod, func_names, cg, vc, fn, last>>

ImportCount ==
    /\ Decoding("import_count")
    /\ pm' = vector_count(pm, "import_names")
    /\ UNCHANGED <<rd, leb, mod, func_names, cg, vc, fn, last>>

ImportNames ==
    /\ Decoding("import_names")
    /\ pm' = import_names(pm)
    /\ UNCHANGED <<rd, leb, mod, func_names, cg, vc, fn, last>>

ImportEntry ==
    /\ Decoding("import_kind")
    /\ \E step \in {import_entry(pm, mod)} : pm' = step.pm /\ mod' = step.mod
    /\ UNCHANGED <<rd, leb, func_names, cg, vc, fn, last>>

ExportCount ==
    /\ Decoding("export_count")
    /\ pm' = vector_count(pm, "export_entry")
    /\ UNCHANGED <<rd, leb, mod, func_names, cg, vc, fn, last>>

ExportEntry ==
    /\ Decoding("export_entry")
    /\ \E step \in {export_entry(pm, mod)} : pm' = step.pm /\ mod' = step.mod
    /\ UNCHANGED <<rd, leb, func_names, cg, vc, fn, last>>

MemoryCount ==
    /\ Decoding("memory_count")
    /\ pm' = vector_count(pm, "memory_entry")
    /\ UNCHANGED <<rd, leb, mod, func_names, cg, vc, fn, last>>

MemoryEntry ==
    /\ Decoding("memory_entry")
    /\ \E step \in {memory_entry(pm, mod)} : pm' = step.pm /\ mod' = step.mod
    /\ UNCHANGED <<rd, leb, func_names, cg, vc, fn, last>>

GlobalCount ==
    /\ Decoding("global_count")
    /\ pm' = vector_count(pm, "global_entry")
    /\ UNCHANGED <<rd, leb, mod, func_names, cg, vc, fn, last>>

GlobalEntry ==
    /\ Decoding("global_entry")
    /\ pm' = global_entry(pm)
    /\ UNCHANGED <<rd, leb, mod, func_names, cg, vc, fn, last>>

InitExprStep ==
    /\ Decoding("init_expr")
    /\ \E step \in {init_expr_step(pm, mod)} : pm' = step.pm /\ mod' = step.mod
    /\ UNCHANGED <<rd, leb, func_names, cg, vc, fn, last>>

CustomSection ==
    /\ Decoding("custom")
    /\ pm' = custom_section(pm)
    /\ UNCHANGED <<rd, leb, mod, func_names, cg, vc, fn, last>>

NameSubsection ==
    /\ Decoding("name_sub")
    /\ pm' = name_subsection(pm)
    /\ UNCHANGED <<rd, leb, mod, func_names, cg, vc, fn, last>>

NameFuncEntry ==
    /\ Decoding("name_func")
    /\ \E step \in {name_func_entry(pm, mod)} : pm' = step.pm /\ mod' = step.mod
    /\ UNCHANGED <<rd, leb, func_names, cg, vc, fn, last>>

DataCount ==
    /\ Decoding("data_count")
    /\ pm' = data_count(pm)
    /\ UNCHANGED <<rd, leb, mod, func_names, cg, vc, fn, last>>

NextDecode ==
    \/ CheckMagic \/ CheckVersion \/ SectionHeader \/ ReturnModule
    \/ ImportCount \/ ImportNames \/ ImportEntry \/ ExportCount \/ ExportEntry
    \/ MemoryCount \/ MemoryEntry \/ GlobalCount \/ GlobalEntry
    \/ InitExprStep \/ CustomSection \/ NameSubsection \/ NameFuncEntry
    \/ DataCount

\* parse_module is one call that runs to its end: a step that can be taken
\* is taken
SpecDecode == InitDecode /\ [][NextDecode]_vars /\ WF_vars(NextDecode)

(***************************************************************************)
(* The validator on the bytes of one function body:                        *)
(* _validate_function_body reads an opcode byte at the reader's position   *)
(* and _validate_instruction handles it, reading the immediates it knows   *)
(* of.  rd is the reader of the body, vc the validation context with the   *)
(* result's error and warning counts, fn the function's type with the      *)
(* offsets at which the body's instructions start, last the opcode handled *)
(* last with the context it met.                                           *)
(***************************************************************************)
\* most instructions of a sampled body
MaxInstrs == 3

I64 == "i64"
F32 == "f32"
F64 == "f64"

\* ValidationContext.push_value
v_push_value(v, vtype) == [v EXCEPT !.value_stack = Append(@, vtype)]

\* ValidationContext.warning
v_warning(v) == [v EXCEPT !.warnings = @ + 1]

\* a read of the body fails: ParseError leaves _validate_instruction
v_raise(v) == [v EXCEPT !.status = "ParseError"]

\* pop_expect(t1) then push_value(t2)
v_unary(v, t1, t2) == v_push_value(v_pop_expect(v, t1), t2)

\* pop_expect(t), pop_expect(t), push_value(t2)
v_binary(v, t, t2) == v_push_value(v_pop_expect(v_pop_expect(v, t), t), t2)

\* the opcodes that no branch of _validate_instruction matches
FallbackOpcodes ==
    (6..10) \cup (18..25) \cup (28..31) \cup (37..39) \cup {79}
        \cup (121..123) \cup (192..251) \cup (253..255)

\* the result types of the block type at r, and whether its type index is
\* in range; the module has one type, the function's own
byte_block_results(r, f) ==
    IF NextByte(r) = 64 THEN [ok |-> TRUE, results |-> <<>>]
    ELSE IF NextByte(r) = 127 THEN [ok |-> TRUE, results |-> <<I32>>]
    ELSE IF NextByte(r) = 126 THEN [ok |-> TRUE, results |-> <<I64>>]
    ELSE IF NextByte(r) = 125 THEN [ok |-> TRUE, results |-> <<F32>>]
    ELSE IF NextByte(r) = 124 THEN [ok |-> TRUE, results |-> <<F64>>]
    ELSE IF NextByte(r) \in {112, 111} THEN [ok |-> TRUE, results |-> <<"ref">>]
    ELSE IF leb_value(r, 0) = 0 THEN [ok |-> TRUE, results |-> f.results]
    ELSE [ok |-> FALSE, results |-> <<>>]

\* block: read_block_type, _block_type_to_results, push_control
validate_block(v, r, f) ==
    Bind(read_block_type(r),
         LAMBDA bt :
             IF ~bt.ok THEN [v |-> v_raise(v), rd |-> bt.rd]
             ELSE [v |-> v_push_control(
                             IF byte_block_results(r, f).ok THEN v ELSE v_error(v),
                             "block", byte_block_results(r, f).results),
                   rd |-> bt.rd])

\* an instruction with one u32 immediate: the immediate, then the checks
validate_with_u32(v, r, check(_, _)) ==
    Bind(read_u32(r),
         LAMBDA imm : IF ~imm.ok THEN [v |-> v_raise(v), rd |-> imm.rd]
                      ELSE [v |-> check(v, imm.value), rd |-> imm.rd])

\* br after its depth
validate_br(v, depth) ==
    v_set_unreachable(IF depth >= Len(v.control_stack) THEN v_error(v) ELSE v)

\* br_if after its depth
validate_br_if(v, depth) == v_pop_expect(v, I32)

\* memory.grow after its memory index
validate_memory_grow(v, mem_idx) == v_unary(v, I32, I32)

\* i32.const after its value
validate_i32_const(v, value) == v_push_value(v, I32)

\* _validate_fc_instruction after the sub-opcode: the saturating
\* conversions, the memory instructions with their immediates, and the
\* warning for the table operations
validate_fc(v, r, sub_opcode) ==
    CASE sub_opcode \in {0, 1} -> [v |-> v_unary(v, F32, I32), rd |-> r]
      [] sub_opcode \in {2, 3} -> [v |-> v_unary(v, F64, I32), rd |-> r]
      [] sub_opcode \in {4, 5} -> [v |-> v_unary(v, F32, I64), rd |-> r]
      [] sub_opcode \in {6, 7} -> [v |-> v_unary(v, F64, I64), rd |-> r]
      [] sub_opcode \in {8, 10} ->
            Bind(read_u32(r),
                 LAMBDA first :
                     IF ~first.ok THEN [v |-> v_raise(v), rd |-> first.rd]
                     ELSE validate_with_u32(
                              v, first.rd,
                              LAMBDA w, second :
                                  v_pop_expect(v_pop_expect(v_pop_expect(w, I32),
                                                            I32), I32)))
      [] sub_opcode = 9 -> validate_with_u32(v, r, LAMBDA w, data_idx : w)
      [] sub_opcode = 11 ->
            validate_with_u32(
                v, r,
                LAMBDA w, mem_idx :
                    v_pop_expect(v_pop_expect(v_pop_expect(w, I32), I32), I32))
      [] OTHER -> [v |-> v_warning(v), rd |-> r]

\* _validate_instruction on the bytes at r: -> [v, rd].  Of the opcodes
\* that a branch matches the ones of the sampled bodies are modelled.
validate_opcode(v, r, f) ==
    LET opcode == NextByte(r)
        r1 == Advance(r, 1)
    IN  CASE opcode = 0 -> [v |-> v_set_unreachable(v), rd |-> r1]
          [] opcode = 1 -> [v |-> v, rd |-> r1]
          [] opcode = 2 ->
                IF at_end(r1) THEN [v |-> v_raise(v), rd |-> r1]
                ELSE validate_block(v, r1, f)
          [] opcode = 11 -> [v |-> v_pop_control(v), rd |-> r1]
          [] opcode = 12 -> validate_with_u32(v, r1, validate_br)
          [] opcode = 13 -> validate_with_u32(v, r1, validate_br_if)
          [] opcode = 26 -> [v |-> v_pop_value(v).v, rd |-> r1]
          [] opcode = 64 -> validate_with_u32(v, r1, validate_memory_grow)
          [] opcode = 65 -> validate_with_u32(v, r1, validate_i32_const)
          [] opcode \in {69, 103, 104, 105} ->
                [v |-> v_unary(v, I32, I32), rd |-> r1]
          [] opcode = 80 -> [v |-> v_unary(v, I64, I32), rd |-> r1]
          [] opcode \in (70..78) \cup (106..120) ->
                [v |-> v_binary(v, I32, I32), rd |-> r1]
          [] opcode \in 124..138 -> [v |-> v_binary(v, I64, I64), rd |-> r1]
          [] opcode \in 153..159 -> [v |-> v_unary(v, F64, F64), rd |-> r1]
          [] opcode = 252 ->
                Bind(read_u32(r1),
                     LAMBDA sub_opcode :
                         IF ~sub_opcode.ok
                         THEN [v |-> v_raise(v), rd |-> sub_opcode.rd]
                         ELSE validate_fc(v, sub_opcode.rd, sub_opcode.value))
          [] opcode \in FallbackOpcodes -> [v |-> v_warning(v), rd |-> r1]

\* _validate_function_body after the loop: the final depth check, and the
\* result is returned
validate_body_end(v, f) ==
    [(IF v.control_stack # <<>>
         /\ Len(v.value_stack) # v.control_stack[1].start_depth + Len(f.results)
         /\ ~v.control_stack[1].unreachable
      THEN v_error(v) ELSE v) EXCEPT !.status = "returned"]

\* the instructions the sampled bodies are made of
InstrTemplates ==
    {<<0>>,                 \* unreachable
     <<1>>,                 \* nop
     <<2, 64>>,             \* block
     <<2, 127>>,            \* block (result i32)
     <<11>>,                \* end
     <<12, 0>>,             \* br 0
     <<12, 1>>,             \* br 1
     <<13, 0>>,             \* br_if 0
     <<13, 1>>,             \* br_if 1
     <<26>>,                \* drop
     <<64, 0>>,             \* memory.grow
     <<65, 0>>,             \* i32.const 0
     <<69>>,                \* i32.eqz
     <<106>>,               \* i32.add
     <<124>>,               \* i64.add
     <<154>>,               \* f64.neg
     <<192>>,               \* i32.extend8_s
     <<208, 112>>,          \* ref.null func
     <<209>>,               \* ref.is_null
     <<210, 0>>,            \* ref.func 0
     <<37, 0>>,             \* table.get 0
     <<252, 2>>,            \* i32.trunc_sat_f64_s
     <<252, 12, 0, 0>>,     \* table.init 0 0
     <<251, 0, 0>>}         \* struct.new 0

\* an instruction cut off by the end of the body
TruncatedInstrs == {<<12>>, <<65>>, <<65, 128>>, <<2>>, <<252>>}

RECURSIVE Concat(_)
Concat(ss) == IF ss = <<>> THEN <<>> ELSE Head(ss) \o Concat(Tail(ss))

\* the offsets at which the instructions ss start in Concat(ss)
InstrStarts(ss) == {Len(Concat(SubSeq(ss, 1, k))) : k \in 0..Len(ss) - 1}

InitValidate ==
    /\ \E ss \in SeqsUpTo(InstrTemplates, MaxInstrs),
          cut \in {<<>>} \cup {<<t>> : t \in TruncatedInstrs},
          results \in {<<>>, <<I32>>} :
            /\ rd = [data |-> Concat(ss \o cut), pos |-> 0]
            /\ fn = [params |-> <<>>, results |-> results,
                     starts |-> InstrStarts(ss \o cut)]
            /\ vc = [reset_for_function(fn) EXCEPT !.errors = 0]
                        @@ [warnings |-> 0, status |-> "running"]
    /\ last = [opcode |-> -1, pos |-> 0, stack |-> <<>>, errors |-> 0,
               frames |-> <<>>]
    /\ leb = IdleLeb
    /\ pm = IdleParse
    /\ mod = EmptyModule
    /\ func_names = <<>>
    /\ cg = IdleCg

\* one iteration of _validate_function_body's loop, the opcode byte in ops
Dispatch(ops) ==
    /\ vc.status = "running" /\ ~at_end(rd) /\ NextByte(rd) \in ops
    /\ \E step \in {validate_opcode(vc, rd, fn)} :
          vc' = step.v /\ rd' = step.rd
    /\ last' = [opcode |-> NextByte(rd), pos |-> rd.pos,
                stack |-> vc.value_stack, errors |-> vc.errors,
                frames |-> vc.control_stack]
    /\ UNCHANGED <<leb, pm, mod, func_names, cg, fn>>

VUnreachable == Dispatch({0})
VNop == Dispatch({1})
VBlock == Dispatch({2})
VEnd == Dispatch({11})
VBr == Dispatch({12})
VBrIf == Dispatch({13})
VDrop == Dispatch({26})
VMemoryGrow == Dispatch({64})
VI32Const == Dispatch({65})
VI32Unary == Dispatch({69, 80, 103, 104, 105})
VI32Binary == Dispatch((70..78) \cup (106..120))
VI64Binary == Dispatch(124..138)
VF64Unary == Dispatch(153..159)
VPrefixFC == Dispatch({252})
VFallback == Dispatch(FallbackOpcodes)

\* the loop is over: the final check, and validate_module returns its result
VReturn ==
    /\ vc.status = "running" /\ at_end(rd)
    /\ vc' = validate_body_end(vc, fn)
    /\ UNCHANGED <<rd, leb, pm, mod, func_names, cg, fn, last>>

NextValidate ==
    \/ VUnreachable \/ VNop \/ VBlock \/ VEnd \/ VBr \/ VBrIf \/ VDrop
    \/ VMemoryGrow \/ VI32Const \/ VI32Unary \/ VI32Binary \/ VI64Binary
    \/ VF64Unary \/ VPrefixFC \/ VFallback \/ VReturn

SpecValidate == InitValidate /\ [][NextValidate]_vars

(***************************************************************************)
(* C9: for every integer n in [-2^63, 2^63), read_s64_leb128 applied to    *)
(* the signed LEB128 encoding of n returns n, the ten-byte encodings       *)
(* included.                                                               *)
(***************************************************************************)
C9_S64RoundTrip ==
    (leb.mode = "s64" /\ leb.status # "running")
        => (leb.status = "returned" /\ leb.result = leb.n)

(***************************************************************************)
(* C10: read_u32_leb128 either returns a value in [0, 2^32) or raises      *)
(* ParseError.                                                             *)
(***************************************************************************)
C10_U32InRange ==
    (leb.mode = "u32" /\ leb.status = "returned") => FitsU32(leb.result)

(***************************************************************************)
(* C11: every failure of parse_module is a ParseError: when the decoder    *)
(* has stopped without returning the module, the exception that left it    *)
(* is ParseError and no other type.                                        *)
(***************************************************************************)
C11_FailuresAreParseErrors ==
    pm.status \notin {"running", "returned"} => pm.status = "ParseError"

(***************************************************************************)
(* C12: every decoded memory entry has is_memory64 true when its limits    *)
(* flag byte is 0x04 or 0x05, and false when the flag byte is 0x00 or 0x01.*)
(***************************************************************************)
C12_Memory64FlagDecoded ==
    \A i \in 1..Len(mod.memories) :
        /\ mod.memories[i].flags \in {4, 5} => mod.memories[i].is_memory64
        /\ mod.memories[i].flags \in {0, 1} => ~mod.memories[i].is_memory64

\* no reader moves backwards in this step; pm.gen tells a reader from the
\* one that was in its place before
PositionsNeverDecrease ==
    /\ rd'.pos >= rd.pos
    /\ pm'.gen.sec = pm.gen.sec => pm'.sec.pos >= pm.sec.pos
    /\ pm'.gen.sub = pm.gen.sub => pm'.sub.pos >= pm.sub.pos
    /\ pm'.gen.fsub = pm.gen.fsub => pm'.fsub.pos >= pm.fsub.pos

\* a step that completes an iteration of a decoding loop moves the reader
\* that the loop reads from
IterationAdvances ==
    pm'.iter # pm.iter =>
        CASE pm'.loop = "sections" -> rd'.pos > rd.pos
          [] pm'.loop \in {"imports", "exports", "memories", "init_expr"} ->
                pm'.gen.sec = pm.gen.sec /\ pm'.sec.pos > pm.sec.pos
          [] pm'.loop = "name_subsections" ->
                pm'.gen.sub = pm.gen.sub /\ pm'.sub.pos > pm.sub.pos
          [] pm'.loop = "function_names" ->
                pm'.gen.fsub = pm.gen.fsub /\ pm'.fsub.pos > pm.fsub.pos
          [] OTHER -> FALSE

C14_BranchDepthChecked ==
    last.op \in {"br", "br_if"} /\ last.arg >= Len(vc.control_stack)
        => vc.errors > 0

\* the frame on top of the control stack that the last opcode met is
\* unreachable and holds no operand of its own
PoppedInEmptyUnreachableFrame ==
    /\ last.frames # <<>>
    /\ last.frames[Len(last.frames)].unreachable
    /\ Len(last.stack) <= last.frames[Len(last.frames)].start_depth

(***************************************************************************)
(* C15: an instruction that pops one operand (br_if, memory.grow, i32.eqz, *)
(* i64.eqz, i32.clz/ctz/popcnt, the f64 unary operators such as f64.neg),  *)
(* handled in an unreachable frame that has no operand left, records no    *)
(* error: the pop yields a bottom type that satisfies the expected type.   *)
(***************************************************************************)
C15_UnreachablePopIsBottom ==
    /\ last.opcode \in {13, 64, 69, 80, 103, 104, 105} \cup (153..159)
    /\ PoppedInEmptyUnreachableFrame
    => vc.errors = last.errors

(***************************************************************************)
(* C16: every byte the validator dispatches on is the opcode of an         *)
(* instruction of the body, that is, the immediates of the instruction     *)
(* before it were consumed; and ref.null has pushed one value when it has  *)
(* been handled.                                                           *)
(***************************************************************************)
C16_ImmediatesAndArity ==
    /\ last.opcode # -1 => last.pos \in fn.starts
    /\ last.opcode = 208 /\ last.pos \in fn.starts
          => Len(vc.value_stack) = Len(last.stack) + 1

(***************************************************************************)
(* C17: validating a function body never raises: whatever the body's bytes *)
(* are, the validator goes on to return its result.                        *)
(***************************************************************************)
C17_ValidateNeverRaises == vc.status # "ParseError"

\* the exception types the claim rules out, as the walk names them
UncleanExceptions ==
    {"IndexError", "AssertionError", "TypeError", "AttributeError: mv_out_params"}

(***************************************************************************)
(* C18: when the compilation of a function raises, the exception is a      *)
(* CompileError, another WasmError, a ValueError or a MemoryError, never   *)
(* an IndexError, AttributeError, TypeError or AssertionError.             *)
(***************************************************************************)
C18_OnlyCleanExceptions == cg.pc = "raised" => cg.exc \notin UncleanExceptions

(***************************************************************************)
(* C19: when the opcode compiled last is one that no instruction           *)
(* translator implements, the compilation has raised CompileError; such an *)
(* opcode is not passed over.                                              *)
(***************************************************************************)
C19_UnimplementedRaises ==
    last.op \in {"0x0a", "0xfe"}
        => /\ cg.pc = "raised"
           /\ cg.exc \in {"CompileError: unhandled opcode: 0x0a",
                          "CompileError: unhandled opcode: 0xfe"}


(***************************************************************************)
(* compile_module called again on the same decoded module                  *)
(* (waq/compiler/codegen.py): every call builds its own Module and         *)
(* ModuleContext, every function its own FunctionContext and ValueStack.   *)
(* The variable pm holds the driver: the number of the call, the code      *)
(* section, the index of the body being compiled, the global-name cache,   *)
(* the Module under construction and what the finished calls returned.     *)
(***************************************************************************)
MaxCalls == 2

\* WasmModule.num_imported_globals
num_imported_globals(m) ==
    Cardinality({k \in 1..Len(m.imports) : m.imports[k].kind = "global"})

\* the first global export of global_idx, 0 when there is none
FirstGlobalExport(m, global_idx) ==
    LET hits == {k \in 1..Len(m.exports) :
                    /\ m.exports[k].kind = "global"
                    /\ m.exports[k].index = global_idx}
    IN  IF hits = {} THEN 0 ELSE CHOOSE k \in hits : \A j \in hits : k <= j

\* ModuleContext.get_global_name, on a cache miss
compute_global_name(m, global_idx) ==
    IF FirstGlobalExport(m, global_idx) # 0
    THEN m.exports[FirstGlobalExport(m, global_idx)].name
    ELSE <<"__wasm_global_", ToString(global_idx)>>

\* ModuleContext.get_global_name: the symbol and the cache after the call
get_global_name(m, cache, global_idx) ==
    IF global_idx \in DOMAIN cache
    THEN [name |-> cache[global_idx], cache |-> cache]
    ELSE [name |-> compute_global_name(m, global_idx),
          cache |-> [i \in DOMAIN cache \cup {global_idx} |->
                        IF i = global_idx
                        THEN compute_global_name(m, global_idx)
                        ELSE cache[i]]]

\* codegen._eval_init_expr on an init expression given as its opcode and
\* decoded immediate: i32.const yields the immediate, global.get and every
\* other opcode yield 0, and so does the empty expression
_eval_init_expr(expr) ==
    IF expr = <<>> THEN 0
    ELSE IF expr[1] = 65 THEN expr[2]
    ELSE 0

\* DataDef(name) with add_words(value)
DataDef(name, value) == [name |-> name, words |-> value]

\* codegen._compile_globals from the i-th global on: the data definitions
\* and the global-name cache
RECURSIVE _compile_globals(_, _, _, _)
_compile_globals(m, cache, i, data) ==
    IF i >= Len(m.globals) THEN [data |-> data, cache |-> cache]
    ELSE LET g == get_global_name(m, cache, i + num_imported_globals(m))
         IN  _compile_globals(m, g.cache, i + 1,
                 Append(data, DataDef(g.name, _eval_init_expr(m.globals[i + 1]))))

\* the qbepy Function that qbe_module.add_function receives
qbe_function(c) ==
    [name |-> c.name, params |-> c.params, ret_type |-> c.ret_type,
     blocks |-> [b \in 1..Len(c.blocks) |->
                    [name |-> c.blocks[b].name,
                     phis |-> c.blocks[b].phis,
                     instructions |-> c.blocks[b].instructions,
                     terminator |-> c.blocks[b].terminator]]]

\* Module()
NewQbeModule == [exc |-> "none", data |-> <<>>, functions |-> <<>>]

\* compile_module ends, by its return or by the exception that leaves it
end_call(p, result) ==
    [p EXCEPT !.out = Append(@, result),
              !.call = @ + 1,
              !.pc = IF p.call < MaxCalls THEN "call" ELSE "done",
              !.status = IF p.call < MaxCalls THEN "running" ELSE "returned"]

\* function bodies of the code section
SampleBodies ==
    {<<Ins("i32.const", BT_EMPTY, 0), Ins("end", BT_EMPTY, 0)>>,
     <<Ins("block", BT_EMPTY, 0), Ins("end", BT_EMPTY, 0),
       Ins("i32.const", BT_EMPTY, 0), Ins("end", BT_EMPTY, 0)>>,
     <<Ins("i32.const", BT_EMPTY, 0), Ins("if", BT_VAL(I32), 0),
       Ins("i32.const", BT_EMPTY, 0), Ins("else", BT_EMPTY, 0),
       Ins("i32.const", BT_EMPTY, 0), Ins("end", BT_EMPTY, 0),
       Ins("end", BT_EMPTY, 0)>>,
     <<Ins("loop", BT_EMPTY, 0), Ins("br", BT_EMPTY, 0),
       Ins("end", BT_EMPTY, 0), Ins("i32.const", BT_EMPTY, 0),
       Ins("end", BT_EMPTY, 0)>>,
     <<Ins("i32.const", BT_EMPTY, 0), Ins("return_call", BT_EMPTY, 1),
       Ins("end", BT_EMPTY, 0)>>,
     <<Ins("block", BT_EMPTY, 0), Ins("i32.const", BT_EMPTY, 0),
       Ins("br_if", BT_EMPTY, 0), Ins("end", BT_EMPTY, 0),
       Ins("i32.const", BT_EMPTY, 0), Ins("end", BT_EMPTY, 0)>>,
     <<Ins("0xfe", BT_EMPTY, 0)>>}

\* the decoded modules compiled: two functions of type (i32) -> (i32), no
\* imports, with or without an exported function, an exported global and a
\* debug name
RecompiledModules ==
    [imports : {<<>>},
     exports : {<<>>,
                <<[name |-> <<"main">>, kind |-> FUNC, index |-> 0]>>,
                <<[name |-> <<"counter">>, kind |-> "global", index |-> 0]>>},
     function_names : {<<>>, [i \in {1} |-> <<"main">>]},
     nfuncs : {NumDefined},
     globals : {<<>>, <<<<65, 7>>>>, <<<<35, 0>>, <<>>>>}]

InitRecompile ==
    /\ mod \in RecompiledModules
    /\ \E code \in [1..NumDefined -> SampleBodies] :
          pm = [pc |-> "call", status |-> "running", call |-> 1,
                code |-> code, i |-> 0, global_names |-> <<>>,
                qbe_module |-> NewQbeModule, out |-> <<>>]
    /\ func_names = <<>>
    /\ cg = NewFunction
    /\ fn = [idx |-> 0, params |-> <<I32>>, results |-> <<I32>>]
    /\ last = NoIns
    /\ vc = IdleVc
    /\ rd = IdleReader
    /\ leb = IdleLeb

\* compile_module up to its loop over the code section: a new Module, a new
\* ModuleContext, the globals
CompileModule ==
    /\ pm.pc = "call"
    /\ \E g \in {_compile_globals(mod, <<>>, 0, <<>>)} :
          pm' = [pm EXCEPT !.pc = "function",
                           !.i = 0,
                           !.global_names = g.cache,
                           !.qbe_module = [NewQbeModule EXCEPT !.data = g.data]]
    /\ func_names' = <<>>
    /\ UNCHANGED <<rd, leb, mod, cg, vc, fn, last>>

\* _compile_function on the next body, up to its loop over the instructions
BeginFunction ==
    /\ pm.pc = "function"
    /\ pm.i < mod.nfuncs
    /\ \E f \in {[idx |-> num_imported_funcs(mod) + pm.i,
                  params |-> <<I32>>, results |-> <<I32>>]} :
       \E n \in {get_func_name(mod, func_names, f.idx)} :
          /\ fn' = f
          /\ cg' = begin_function(NewFunction, f, n.name)
          /\ func_names' = n.cache
    /\ pm' = [pm EXCEPT !.pc = "body"]
    /\ UNCHANGED <<rd, leb, mod, vc, last>>

\* one instruction of the body
CompileInstruction ==
    /\ pm.pc = "body"
    /\ cg.pc = "run"
    /\ cg.pos < Len(pm.code[pm.i + 1])
    /\ \E ins \in {pm.code[pm.i + 1][cg.pos + 1]} :
          /\ cg' = _compile_instruction(cg, fn, ins,
                       get_func_name(mod, func_names, ins.arg).name)
          /\ func_names' = IF LooksUpCallee(ins)
                           THEN get_func_name(mod, func_names, ins.arg).cache
                           ELSE func_names
          /\ last' = Executed(ins, cg)
    /\ UNCHANGED <<rd, leb, pm, mod, vc, fn>>

\* the reader is at the end of the body: the implicit return, then
\* qbe_module.add_function
AddFunction ==
    /\ pm.pc = "body"
    /\ cg.pc = "run"
    /\ cg.pos = Len(pm.code[pm.i + 1])
    /\ \E c \in {finish_function(cg, fn)} :
          /\ cg' = c
          /\ pm' = [pm EXCEPT !.pc = "function",
                              !.i = @ + 1,
                              !.qbe_module.functions = Append(@, qbe_function(c))]
    /\ UNCHANGED <<rd, leb, mod, func_names, vc, fn, last>>

\* an exception of a translator leaves compile_module
CompileFails ==
    /\ pm.pc = "body"
    /\ cg.pc = "raised"
    /\ pm' = end_call(pm, [NewQbeModule EXCEPT !.exc = cg.exc])
    /\ UNCHANGED <<rd, leb, mod, func_names, cg, vc, fn, last>>

\* every body is compiled: compile_module returns the Module
ReturnQbeModule ==
    /\ pm.pc = "function"
    /\ pm.i = mod.nfuncs
    /\ pm' = end_call(pm, pm.qbe_module)
    /\ UNCHANGED <<rd, leb, mod, func_names, cg, vc, fn, last>>

NextRecompile ==
    \/ CompileModule
    \/ BeginFunction
    \/ CompileInstruction
    \/ AddFunction
    \/ CompileFails
    \/ ReturnQbeModule

SpecRecompile == InitRecompile /\ [][NextRecompile]_vars

C21_NoAppendAfterTerminator ==
    [][cg.pc = "run" =>
          \A b \in 1..Len(cg.blocks) :
             cg.blocks[b].terminator # NoTerminator =>
                cg'.blocks[b].instructions = cg.blocks[b].instructions]_vars

\* the instructions that run between the label of block b and the first
\* instruction compiled from the body: in the entry block the allocations
\* and the parameter stores of _compile_function, in other blocks none
Prologue(c, b) ==
    IF c.blocks[b].name = "entry"
    THEN SubSeq(c.blocks[b].instructions, 1, 2 * Len(c.params))
    ELSE <<>>

\* the last instruction was a self return_call that found its arguments on
\* the stack: it stored them into the parameter slots and set the jump
SelfTailCallEmitted ==
    /\ last.op = "return_call"
    /\ last.arg = fn.idx
    /\ Len(fn.params) > 0
    /\ Len(last.stack) >= Len(fn.params)

\* C22: the block that the jump of a self return_call leads to does not
\* store an incoming parameter into a parameter slot before the body's
\* first instruction, so the slots still hold the arguments of the tail call
\* when the body runs again
C22_TailCallKeepsArguments ==
    SelfTailCallEmitted =>
        \A b \in 1..Len(cg.blocks) :
           \A t \in 1..Len(cg.blocks) :
              /\ cg.blocks[t].terminator = Jump(cg.blocks[b].name)
              /\ cg.blocks[t].name = last.block
              => \A k \in 1..Len(Prologue(cg, b)) :
                    ~ /\ Prologue(cg, b)[k].op = "store"
                      /\ Prologue(cg, b)[k].args[1] \in
                            {cg.params[i] : i \in 1..Len(cg.params)}
                      /\ Prologue(cg, b)[k].args[2] \in
                            {cg.local_addrs[i] : i \in 1..Len(cg.local_addrs)}


(***************************************************************************)
(* ValueStack.pop_n and the call translator on their own                   *)
(* (waq/compiler/stack.py, control._emit_call): temporaries are pushed,    *)
(* then pop_n or `call` is applied to the stack. The variable last holds   *)
(* the operation applied last with the stack before it and, for pop_n, the *)
(* list it returned.                                                       *)
(***************************************************************************)
MaxTemps == 3
MaxCallOps == 2

Load(res, address) == Instruction("load", res, <<address>>, <<>>)

\* the function types of the module whose functions are called: function
\* index i has type CallTypes[i + 1]
CallTypes ==
    <<FuncType(<<>>, <<>>),
      FuncType(<<I32>>, <<I32>>),
      FuncType(<<I32, I64>>, <<>>),
      FuncType(<<>>, <<I64>>),
      FuncType(<<I64>>, <<I32, I64>>)>>

CallModule == [WalkModule EXCEPT !.nfuncs = Len(CallTypes)]

\* ValueStack.pop_n: the list returned and the stack kept
pop_n(c, n) ==
    IF Len(c.stack) < n
    THEN [ctx |-> Raise(c, Underflow), returned |-> <<>>]
    ELSE [ctx |-> [c EXCEPT !.stack = pop_n_rest(@, n)],
          returned |-> pop_n_values(c.stack, n)]

\* control._emit_call for a callee of type func_type and symbol func_name
_emit_call(c, func_type, func_name) ==
    LET n == Len(func_type.params)
        r == Len(func_type.results)
        popped == pop_n(c, n)
        args == popped.returned
        c1 == popped.ctx
        tc == c.temp_counter
        call_args == [i \in 1..Len(args) |-> args[i].name]
        slots == [i \in 1..(r - 1) |-> Temp(tc + i - 1)]
        first == Temp(tc + r - 1)
        loaded == [i \in 1..(r - 1) |-> Temp(tc + r - 1 + i)]
    IN
    IF c1.pc = "raised" THEN c1
    ELSE IF Len(args) # n THEN Raise(c1, "ValueError: zip")
    ELSE IF r = 0 THEN append(c1, c.cur, Call(func_name, call_args, ""))
    ELSE IF r = 1
    THEN append(new_temp(c1, func_type.results[1]), c.cur,
                Call(func_name, call_args, Temp(tc)))
    ELSE [c1 EXCEPT
            !.temp_counter = tc + 2 * r - 1,
            !.stack = @ \o <<StackValue(first, func_type.results[1])>> \o
                      [i \in 1..(r - 1) |->
                          StackValue(loaded[i], func_type.results[i + 1])],
            !.blocks[c.cur].instructions =
                @ \o [i \in 1..(r - 1) |-> Alloc(slots[i])] \o
                <<Call(func_name, call_args \o slots, first)>> \o
                [i \in 1..(r - 1) |-> Load(loaded[i], slots[i])]]

NoOperation ==
    [op |-> "none", n |-> 0, func_idx |-> 0, stack |-> <<>>,
     returned |-> <<>>, instructions |-> 0, temp_counter |-> 0]

\* the operation applied to FunctionContext c
Applied(op, n, func_idx, returned, c) ==
    [op |-> op, n |-> n, func_idx |-> func_idx, stack |-> c.stack,
     returned |-> returned,
     instructions |-> Len(c.blocks[c.cur].instructions),
     temp_counter |-> c.temp_counter]

InitCall ==
    /\ fn = [idx |-> 0, params |-> <<>>, results |-> <<>>]
    /\ mod = CallModule
    /\ func_names = <<>>
    /\ cg = begin_function(NewFunction, fn, compute_func_name(CallModule, 0))
    /\ last = NoOperation
    /\ vc = IdleVc
    /\ rd = IdleReader
    /\ leb = IdleLeb
    /\ pm = IdleParse

\* ValueStack.new_temp
PushTemp ==
    /\ cg.pc = "run"
    /\ cg.temp_counter < MaxTemps
    /\ \E vtype \in {I32, I64} : cg' = new_temp(cg, vtype)
    /\ last' = Applied("new_temp", 0, 0, <<>>, cg)
    /\ UNCHANGED <<rd, leb, pm, mod, func_names, vc, fn>>

\* ValueStack.pop_n(n)
PopN ==
    /\ cg.pc = "run"
    /\ cg.pos < MaxCallOps
    /\ \E n \in 0..(Len(cg.stack) + 1) :
       \E popped \in {pop_n(cg, n)} :
          /\ cg' = [popped.ctx EXCEPT !.pos = @ + 1]
          /\ last' = Applied("pop_n", n, 0, popped.returned, cg)
    /\ UNCHANGED <<rd, leb, pm, mod, func_names, vc, fn>>

\* 0x10 call
EmitCall ==
    /\ cg.pc = "run"
    /\ cg.pos < MaxCallOps
    /\ \E func_idx \in 0..(Len(CallTypes) - 1) :
       \E name \in {get_func_name(mod, func_names, func_idx)} :
          /\ cg' = [_emit_call(cg, CallTypes[func_idx + 1], name.name)
                       EXCEPT !.pos = @ + 1]
          /\ func_names' = IF cg'.pc = "run" THEN name.cache ELSE func_names
          /\ last' = Applied("call", Len(CallTypes[func_idx + 1].params),
                             func_idx, <<>>, cg)
    /\ UNCHANGED <<rd, leb, pm, mod, vc, fn>>

NextCall == PushTemp \/ PopN \/ EmitCall

SpecCall == InitCall /\ [][NextCall]_vars

\* the instructions that the operation applied last added to the block
Emitted ==
    SubSeq(cg.blocks[cg.cur].instructions, last.instructions + 1,
           Len(cg.blocks[cg.cur].instructions))

\* C23: a call to a function of n parameters and r results that finds n
\* values on the stack raises nothing, passes the top n entries in declared
\* order, keeps every entry below them and pushes r new temporaries; also
\* for n = 0 on a stack that is not empty
C23_CallFrameEffect ==
    /\ last.op = "call"
    /\ last.n <= Len(last.stack)
    => LET t == CallTypes[last.func_idx + 1]
           below == Len(last.stack) - last.n
       IN  /\ cg.pc = "run"
           /\ Len(cg.stack) = below + Len(t.results)
           /\ SubSeq(cg.stack, 1, below) = SubSeq(last.stack, 1, below)
           /\ \A i \in 1..Len(t.results) :
                 /\ cg.stack[below + i].type = t.results[i]
                 /\ \A k \in 1..Len(last.stack) :
                       cg.stack[below + i].name # last.stack[k].name
           /\ \E k \in 1..Len(Emitted) :
                 /\ Emitted[k].op = "call"
                 /\ SubSeq(Emitted[k].args, 1, last.n) =
                       [i \in 1..last.n |-> last.stack[below + i].name]

\* C30: pop_n(n) with n from 0 to the depth returns the top n entries,
\* bottom-most first, and keeps exactly the entries below them
C30_PopNTopEntries ==
    /\ last.op = "pop_n"
    /\ last.n <= Len(last.stack)
    => /\ cg.pc = "run"
       /\ last.returned =
             SubSeq(last.stack, Len(last.stack) - last.n + 1, Len(last.stack))
       /\ cg.stack = SubSeq(last.stack, 1, Len(last.stack) - last.n)


(***************************************************************************)
(* The br_table translator (control.py, opcode 0x0E) inside blocks and     *)
(* loops. The variable last holds the br_table compiled last: its targets, *)
(* its default, the block it was compiled into, the index temporary and    *)
(* the control stack it found.                                             *)
(***************************************************************************)
MaxTargets == 2
MaxTableBody == 4

IntConst(i) == ToString(i)

Comparison(res, left, right) == Instruction("ceqw", res, <<left, right>>, <<>>)

\* the loop of the br_table handler from target number i on, b the block
\* under construction: a comparison of the index with i, a conditional
\* branch to a new block that jumps to the target, and a new block for the
\* next comparison; after the last target the jump to the default
RECURSIVE br_table_chain(_, _, _, _, _, _)
br_table_chain(c, b, idx, targets, default_target, i) ==
    IF i = Len(targets)
    THEN IF default_target >= Len(c.control) THEN Raise(c, BranchDepthError)
         ELSE _emit_branch(c, b, get_branch_target(c, default_target))
    ELSE IF targets[i + 1] >= Len(c.control) THEN Raise(c, BranchDepthError)
    ELSE LET target == get_branch_target(c, targets[i + 1])
             check_label == new_label(c, "br_table_" \o ToString(i), 0)
             next_label == new_label(c, "br_table_next_" \o ToString(i), 1)
             cmp_temp == Temp(c.temp_counter)
             c1 == [c EXCEPT !.label_counter = @ + 2, !.temp_counter = @ + 1]
             c2 == append(c1, b, Comparison(cmp_temp, idx, IntConst(i)))
             c3 == set_terminator(c2, b, Branch(cmp_temp, check_label, next_label))
             c4 == add_block(c3, check_label)
             c5 == _emit_branch(c4, Len(c4.blocks), target)
             c6 == add_block(c5, next_label)
         IN  br_table_chain(c6, Len(c6.blocks), idx, targets, default_target,
                            i + 1)

\* 0x0E br_table
compile_br_table(c, targets, default_target) ==
    IF c.stack = <<>> THEN Raise(c, Underflow)
    ELSE br_table_chain([c EXCEPT !.stack = SubSeq(@, 1, Len(@) - 1)], c.cur,
                        c.stack[Len(c.stack)].name, targets, default_target, 0)

NoBrTable ==
    [op |-> "none", targets |-> <<>>, default |-> 0, block |-> 0,
     idx |-> NONE, control |-> <<>>, blocks |-> 0]

InitBrTable ==
    /\ fn = [idx |-> 0, params |-> <<>>, results |-> <<>>]
    /\ mod = WalkModule
    /\ func_names = <<>>
    /\ cg = begin_function(NewFunction, fn, compute_func_name(WalkModule, 0))
    /\ last = NoBrTable
    /\ vc = IdleVc
    /\ rd = IdleReader
    /\ leb = IdleLeb
    /\ pm = IdleParse

\* one instruction other than br_table, compiled to c
TableStep(c) ==
    /\ cg.pc = "run"
    /\ cg.pos < MaxTableBody
    /\ cg' = [c EXCEPT !.pos = @ + 1]
    /\ last' = NoBrTable
    /\ UNCHANGED <<rd, leb, pm, mod, func_names, vc, fn>>

TableBlock ==
    /\ Len(cg.control) < MaxNest
    /\ TableStep(compile_block(cg, fn, BT_EMPTY))

TableLoop ==
    /\ Len(cg.control) < MaxNest
    /\ TableStep(compile_loop(cg, fn, BT_EMPTY))

TableConst ==
    /\ Len(cg.stack) < MaxStack
    /\ TableStep(compile_i32_const(cg))

\* br_table with up to MaxTargets targets; depths up to the first one out
\* of range
BrTable ==
    /\ cg.pc = "run"
    /\ cg.pos < MaxTableBody
    /\ \E n \in 0..MaxTargets :
       \E targets \in [1..n -> 0..Len(cg.control)] :
       \E default_target \in 0..Len(cg.control) :
          /\ cg' = [compile_br_table(cg, targets, default_target)
                       EXCEPT !.pos = @ + 1]
          /\ last' = [op |-> "br_table", targets |-> targets,
                      default |-> default_target, block |-> cg.cur,
                      idx |-> IF cg.stack = <<>> THEN NONE
                              ELSE cg.stack[Len(cg.stack)].name,
                      control |-> cg.control, blocks |-> Len(cg.blocks)]
    /\ UNCHANGED <<rd, leb, pm, mod, func_names, vc, fn>>

NextBrTable == TableBlock \/ TableLoop \/ TableConst \/ BrTable

SpecBrTable == InitBrTable /\ [][NextBrTable]_vars

\* the number of the block called name
BlockNamed(c, name) == CHOOSE b \in 1..Len(c.blocks) : c.blocks[b].name = name

\* the value of comparison temporary cond of block b when the index holds v
Compares(c, b, idx, cond, v) ==
    \E k \in 1..Len(c.blocks[b].instructions) :
       /\ c.blocks[b].instructions[k].op = "ceqw"
       /\ c.blocks[b].instructions[k].res = cond
       /\ c.blocks[b].instructions[k].args = <<idx, IntConst(v)>>

\* the label at which control leaves the blocks numbered above first when
\* block b is entered with the index temporary idx holding v: a conditional
\* branch is followed by its comparison, a jump by its label
RECURSIVE Destination(_, _, _, _, _)
Destination(c, b, first, idx, v) ==
    LET term == c.blocks[b].terminator
        next == IF term.kind = "jmp" THEN term.a
                ELSE IF Compares(c, b, idx, term.a, v) THEN term.b
                ELSE term.c
        inside == {k \in (first + 1)..Len(c.blocks) : c.blocks[k].name = next}
    IN  IF term.kind \notin {"jmp", "jnz"} THEN NONE
        ELSE IF inside = {} THEN next
        ELSE Destination(c, CHOOSE k \in inside : TRUE, first, idx, v)

\* the branch label of the frame that depth designated when the br_table
\* was compiled
LabelAtDepth(depth) ==
    last.control[Len(last.control) - depth].label_name

\* the br_table compiled last found its index and all its depths in range
BrTableCompiled ==
    /\ last.op = "br_table"
    /\ last.idx # NONE
    /\ last.default < Len(last.control)
    /\ \A i \in 1..Len(last.targets) : last.targets[i] < Len(last.control)

MaxBranchBody == 5

\* the branch that br or br_if ins, compiled in context c, jumps with: for
\* br the jump is the terminator of the current block, for br_if that of the
\* new br_if_branch block, and the condition is no longer on the stack
Taken(ins, c) ==
    LET operands == IF ins.op = "br_if"
                    THEN SubSeq(c.stack, 1, Len(c.stack) - 1) ELSE c.stack
    IN  [label |-> get_branch_target(c, ins.arg).label_name,
         from |-> IF ins.op = "br_if" THEN new_label(c, "br_if_branch", 1)
                  ELSE c.blocks[c.cur].name,
         value |-> IF operands = <<>> THEN NONE
                   ELSE operands[Len(operands)].name]

InitBranch ==
    /\ fn \in PhiFunctions
    /\ mod = WalkModule
    /\ func_names = <<>>
    /\ cg = begin_function(NewFunction, fn, compute_func_name(WalkModule, fn.idx))
    /\ vc = reset_for_function(fn)
    /\ last = [op |-> "none", frame |-> NoFrame, branches |-> <<>>]
    /\ rd = IdleReader
    /\ leb = IdleLeb
    /\ pm = IdleParse

\* one instruction, read by both walks
BranchStep(ins) ==
    /\ cg.pc = "run"
    /\ vc.errors = 0
    /\ cg.pos < MaxBranchBody
    /\ \E c \in {_compile_instruction(cg, fn, ins, <<>>)} :
          /\ cg' = c
          /\ last' = [op |-> ins.op,
                      frame |-> IF cg.control = <<>> THEN NoFrame
                                ELSE cg.control[Len(cg.control)],
                      branches |->
                          IF ins.op \in {"br", "br_if"} /\ c.pc = "run"
                          THEN Append(last.branches, Taken(ins, cg))
                          ELSE last.branches]
    /\ vc' = _validate_instruction(vc, fn, ins)
    /\ UNCHANGED <<rd, leb, pm, mod, func_names, fn>>

BranchConst ==
    /\ Len(cg.stack) < MaxStack
    /\ BranchStep(Ins("i32.const", BT_EMPTY, 0))

BranchDrop == BranchStep(Ins("drop", BT_EMPTY, 0))

BranchBlock ==
    /\ Len(cg.control) < MaxNest
    /\ \E bt \in {BT_EMPTY, BT_VAL(I32)} : BranchStep(Ins("block", bt, 0))

BranchIf ==
    /\ Len(cg.control) < MaxNest
    /\ \E bt \in {BT_EMPTY, BT_VAL(I32)} : BranchStep(Ins("if", bt, 0))

BranchElse == BranchStep(Ins("else", BT_EMPTY, 0))

BranchEnd == BranchStep(Ins("end", BT_EMPTY, 0))

BranchBr == \E depth \in 0..1 : BranchStep(Ins("br", BT_EMPTY, depth))

BranchBrIf == \E depth \in 0..1 : BranchStep(Ins("br_if", BT_EMPTY, depth))

NextBranch ==
    \/ BranchConst
    \/ BranchDrop
    \/ BranchBlock
    \/ BranchIf
    \/ BranchElse
    \/ BranchEnd
    \/ BranchBr
    \/ BranchBrIf

SpecBranch == InitBranch /\ [][NextBranch]_vars

\* temporary name holds value on the path that enters the current block
\* from block from: it is that temporary, or a phi of the current block
\* gives it that value for that predecessor
HoldsFrom(name, from, value) ==
    \/ name = value
    \/ \E k \in 1..Len(cg.blocks[cg.cur].phis) :
          /\ cg.blocks[cg.cur].phis[k].result = name
          /\ \E j \in 1..Len(cg.blocks[cg.cur].phis[k].incoming) :
                cg.blocks[cg.cur].phis[k].incoming[j] = <<from, value>>

\* C25: after the end of a block or if frame with a result, in a body the
\* validator accepts, the temporary on top of the stack holds, for every
\* branch compiled to that frame, the value that was on top of the stack at
\* the branch
C25_BranchCarriesResult ==
    /\ last.op = "end"
    /\ last.frame.kind \in {"block", "if"}
    /\ last.frame.result_types # <<>>
    /\ cg.pc = "run"
    /\ vc.errors = 0
    => \A k \in 1..Len(last.branches) :
          /\ last.branches[k].label = last.frame.label_name
          /\ last.branches[k].value # NONE
          => /\ cg.stack # <<>>
             /\ HoldsFrom(cg.stack[Len(cg.stack)].name, last.branches[k].from,
                          last.branches[k].value)

\* the validator's verdict on the body read so far closed by one more end
ClosedBodyErrors ==
    v_finish(_validate_instruction(vc, fn, Ins("end", BT_EMPTY, 0)), fn).errors

\* C26: when the code generator raises a stack underflow or a branch-depth
\* error on an instruction, the validator does not accept the body: it has
\* recorded an error by then, or records one when the body is closed there
C26_ValidatedBodiesCompile ==
    /\ cg.pc = "raised"
    /\ cg.exc \in {Underflow, BranchDepthError}
    => vc.errors > 0 \/ ClosedBodyErrors > 0

\* ---- select and the exception handling instructions ----
\* instructions of one sampled exception body
MaxTryBody == 4

\* the prefixes of the labels that select and the exception handlers take
\* from new_label
SlicedPrefixes ==
    {"select_then", "select_else", "select_merge", "try_body", "catch",
     "try_end", "catch_next", "catch_all"}

\* prefix[1:]
prefix_from_1(prefix) ==
    CASE prefix = "select_then" -> "elect_then"
      [] prefix = "select_else" -> "elect_else"
      [] prefix = "select_merge" -> "elect_merge"
      [] prefix = "try_body" -> "ry_body"
      [] prefix = "catch" -> "atch"
      [] prefix = "try_end" -> "ry_end"
      [] prefix = "catch_next" -> "atch_next"
      [] prefix = "catch_all" -> "atch_all"

\* label[1:] for a label of new_label: the label without its first
\* character; new_label puts no "@" in front of the prefix
slice_from_1(label) ==
    LET pk == CHOOSE pk \in SlicedPrefixes \X (0..(3 * MaxTryBody + 3)) :
                 label = pk[1] \o ToString(pk[2])
    IN  prefix_from_1(pk[1]) \o ToString(pk[2])

\* 0x1B select
compile_select(c) ==
    IF Len(c.stack) < 3
    THEN Raise([c EXCEPT !.stack = <<>>], Underflow)
    ELSE LET n == Len(c.stack)
             cond == c.stack[n]
             val2 == c.stack[n - 1]
             val1 == c.stack[n - 2]
             result == Temp(c.temp_counter)
             then_label == new_label(c, "select_then", 0)
             else_label == new_label(c, "select_else", 1)
             merge_label == new_label(c, "select_merge", 2)
             c1 == set_terminator(c, c.cur,
                                  Branch(cond.name, then_label, else_label))
             c2 == add_block(c1, slice_from_1(then_label))
             c3 == set_terminator(c2, Len(c2.blocks), Jump(merge_label))
             c4 == add_block(c3, slice_from_1(else_label))
             c5 == set_terminator(c4, Len(c4.blocks), Jump(merge_label))
             c6 == add_block(c5, slice_from_1(merge_label))
             merge_block == Len(c6.blocks)
         IN  [c6 EXCEPT
                !.stack = Append(SubSeq(@, 1, n - 3),
                                 StackValue(result, val1.type)),
                !.temp_counter = @ + 1,
                !.label_counter = @ + 3,
                !.blocks[merge_block].phis =
                    <<Phi(result, <<<<then_label, val1.name>>,
                                    <<else_label, val2.name>>>>)>>,
                !.cur = merge_block]

\* the ControlFrame of a try; try_block is history: the number of the block
\* of the try body
TryFrame(start_depth, result_types, catch_label, end_label, try_block) ==
    [kind |-> "try", start_depth |-> start_depth,
     result_types |-> result_types, label_name |-> end_label,
     else_label |-> NONE, end_label |-> end_label,
     has_then_values |-> FALSE, then_values |-> <<>>, then_label |-> NONE,
     at_else_block |-> NONE, at_else_stack |-> <<>>,
     catch_label |-> catch_label, try_block |-> try_block]

push_exception_handler(res) ==
    Call(<<"__wasm_push_exception_handler">>, <<>>, res)

pop_exception_handler == Call(<<"__wasm_pop_exception_handler">>, <<>>, "")

\* 0x06 try
compile_try(c, f, bt) ==
    IF ~block_type_in_range(bt, f) THEN Raise(c, "IndexError")
    ELSE LET try_body_label == new_label(c, "try_body", 0)
             catch_label == new_label(c, "catch", 1)
             end_label == new_label(c, "try_end", 2)
             c1 == add_block(set_terminator(c, c.cur, Jump(try_body_label)),
                             slice_from_1(try_body_label))
             try_block == Len(c1.blocks)
             c2 == append(c1, try_block,
                          push_exception_handler(Temp(c.temp_counter)))
         IN  [c2 EXCEPT
                !.label_counter = @ + 3,
                !.temp_counter = @ + 1,
                !.control = Append(@, TryFrame(Len(c.stack),
                                       _block_type_to_results(bt, f),
                                       catch_label, end_label, try_block)),
                !.cur = try_block]

\* the end of the block before a catch, catch_all or delegate: the handler
\* is popped and the block jumps to the end label, unless the block is
\* terminated already
leave_try_body(c, frame) ==
    IF c.blocks[c.cur].terminator = NoTerminator
    THEN set_terminator(append(c, c.cur, pop_exception_handler), c.cur,
                        Jump(frame.end_label))
    ELSE c

\* 0x07 catch
compile_catch(c) ==
    IF c.control = <<>> \/ c.control[Len(c.control)].kind \notin {"try", "catch"}
    THEN Raise(c, "ValueError: catch without matching try")
    ELSE LET top == Len(c.control)
             frame == c.control[top]
             again == frame.kind = "catch"
             catch_label == IF again THEN new_label(c, "catch", 0)
                            ELSE frame.catch_label
             minted == IF again THEN 2 ELSE 1
             c1 == add_block(leave_try_body(c, frame),
                             slice_from_1(catch_label))
             catch_block == Len(c1.blocks)
             c2 == append(new_temp(c1, "externref"), catch_block,
                          Call(<<"__wasm_get_exception">>, <<>>,
                               Temp(c.temp_counter)))
         IN  [c2 EXCEPT
                !.control[top].kind = "catch",
                !.control[top].catch_label =
                    new_label(c, "catch_next", minted - 1),
                !.label_counter = @ + minted,
                !.cur = catch_block]

\* 0x08 throw
compile_throw(c, tag_idx) ==
    set_terminator(
        append(c, c.cur, Call(<<"__wasm_throw">>, <<IntConst(tag_idx)>>, "")),
        c.cur, Halt)

\* 0x18 delegate
compile_delegate(c) ==
    IF c.control = <<>> \/ c.control[Len(c.control)].kind # "try"
    THEN Raise(c, "ValueError: delegate without matching try")
    ELSE LET frame == c.control[Len(c.control)]
             c1 == leave_try_body(
                       [c EXCEPT !.control = SubSeq(@, 1, Len(@) - 1)], frame)
             c2 == add_block(c1, slice_from_1(frame.end_label))
         IN  [c2 EXCEPT !.cur = Len(c2.blocks)]

\* 0x19 catch_all
compile_catch_all(c) ==
    IF c.control = <<>> \/ c.control[Len(c.control)].kind \notin {"try", "catch"}
    THEN Raise(c, "ValueError: catch_all without matching try")
    ELSE LET top == Len(c.control)
             frame == c.control[top]
             catch_all_label == new_label(c, "catch_all", 0)
             c1 == add_block(leave_try_body(c, frame),
                             slice_from_1(catch_all_label))
         IN  [c1 EXCEPT
                !.control[top].kind = "catch",
                !.label_counter = @ + 1,
                !.cur = Len(c1.blocks)]

NoTryStep == [op |-> "none", frame |-> NoFrame, block |-> 0, terminated |-> FALSE]

InitTry ==
    /\ fn = [idx |-> 0, params |-> <<>>, results |-> <<>>]
    /\ mod = WalkModule
    /\ func_names = <<>>
    /\ cg = begin_function(NewFunction, fn, compute_func_name(WalkModule, 0))
    /\ last = NoTryStep
    /\ vc = IdleVc
    /\ rd = IdleReader
    /\ leb = IdleLeb
    /\ pm = IdleParse

\* one instruction of the body is compiled; last keeps the instruction, the
\* innermost frame and the current block it met
TryStep(op, c) ==
    /\ cg.pc = "run"
    /\ cg.pos < MaxTryBody
    /\ cg' = [c EXCEPT !.pos = @ + 1]
    /\ last' = [op |-> op,
                frame |-> IF cg.control = <<>> THEN NoFrame
                          ELSE cg.control[Len(cg.control)],
                block |-> cg.cur,
                terminated |-> cg.blocks[cg.cur].terminator # NoTerminator]
    /\ UNCHANGED <<rd, leb, pm, mod, func_names, vc, fn>>

TryConst ==
    /\ Len(cg.stack) < MaxStack
    /\ TryStep("i32.const", compile_i32_const(cg))

TrySelect == TryStep("select", compile_select(cg))

TryOpen ==
    /\ Len(cg.control) < MaxNest
    /\ TryStep("try", compile_try(cg, fn, BT_EMPTY))

TryCatch == TryStep("catch", compile_catch(cg))

TryCatchAll == TryStep("catch_all", compile_catch_all(cg))

TryDelegate == TryStep("delegate", compile_delegate(cg))

TryThrow == TryStep("throw", compile_throw(cg, 0))

TryEnd ==
    /\ cg.control # <<>>
    /\ TryStep("end", compile_end(cg))

TryBr == \E depth \in 0..1 : TryStep("br", compile_br(cg, depth))

TryReturn == TryStep("return", _emit_return(cg, fn))

\* the end of the body: the function is completed
TryFinish ==
    /\ cg.pc = "run"
    /\ cg' = finish_function(cg, fn)
    /\ last' = NoTryStep
    /\ UNCHANGED <<rd, leb, pm, mod, func_names, vc, fn>>

NextTry ==
    \/ TryConst
    \/ TrySelect
    \/ TryOpen
    \/ TryCatch
    \/ TryCatchAll
    \/ TryDelegate
    \/ TryThrow
    \/ TryEnd
    \/ TryBr
    \/ TryReturn
    \/ TryFinish

SpecTry == InitTry /\ [][NextTry]_vars

\* the labels a terminator names
TerminatorLabels(term) ==
    IF term.kind = "jmp" THEN {term.a}
    ELSE IF term.kind = "jnz" THEN {term.b, term.c}
    ELSE {}

\* the labels that the jumps, the conditional branches and the phi pairs of
\* the function name
NamedLabels(c) ==
    UNION {TerminatorLabels(c.blocks[b].terminator) \cup
           {c.blocks[b].phis[p].incoming[j][1] :
               p \in 1..Len(c.blocks[b].phis), j \in 1..2}
           : b \in 1..Len(c.blocks)}

\* C27: in a completed function whose blocks are all closed, every label
\* that a jump, a conditional branch or a phi pair names is the name of
\* exactly one block of the function
C27_LabelsNameBlocks ==
    cg.pc = "done" /\ cg.control = <<>>
    => \A label \in NamedLabels(cg) :
          Cardinality({b \in 1..Len(cg.blocks) : cg.blocks[b].name = label}) = 1

\* the calls of block b to the runtime function called name
CallsTo(c, b, name) ==
    Cardinality({k \in 1..Len(c.blocks[b].instructions) :
                    /\ c.blocks[b].instructions[k].op = "call"
                    /\ c.blocks[b].instructions[k].target = <<name>>})

\* the instruction just compiled left the body of the innermost try on a
\* path that ran from the entry of the try to that instruction in the block
\* of the try body, without a throw
LeftTryBody ==
    /\ cg.pc = "run"
    /\ last.op \in {"catch", "catch_all", "delegate", "end", "br", "return"}
    /\ last.frame.kind = "try"
    /\ last.block = last.frame.try_block
    /\ ~last.terminated

\* C28: when control leaves the body of a try by catch, catch_all, delegate,
\* end, br or return, the block of the try body holds the one push of the
\* handler made at the entry of the try and exactly one pop of it
C28_OnePopPerTry ==
    LeftTryBody
    => /\ CallsTo(cg, last.block, "__wasm_push_exception_handler") = 1
       /\ CallsTo(cg, last.block, "__wasm_pop_exception_handler") = 1

\* the same for the three instructions the exception handlers translate
C28_PopBeforeHandlers ==
    LeftTryBody /\ last.op \in {"catch", "catch_all", "delegate"}
    => /\ CallsTo(cg, last.block, "__wasm_push_exception_handler") = 1
       /\ CallsTo(cg, last.block, "__wasm_pop_exception_handler") = 1

\* ---- the labels of one function ----
\* the label counter up to which bodies are followed, and the targets of
\* one br_table
MaxLabels == 125
MaxLabelTargets == 12

\* a function context at label counter n, inside a block, with one value
\* on the stack
LabelContext(n) ==
    LET f == [idx |-> 0, params |-> <<>>, results |-> <<>>]
        c == begin_function(NewFunction, f, compute_func_name(WalkModule, 0))
    IN  [compile_i32_const(compile_block(c, f, BT_EMPTY))
            EXCEPT !.label_counter = n]

\* the labels new_label returns while block is compiled at label counter n
BlockLabels(n) ==
    LET c == compile_block(LabelContext(n), fn, BT_EMPTY)
    IN  <<c.control[Len(c.control)].label_name>>

\* the labels new_label returns while a br_table with k targets is compiled
\* at label counter n: the names of the blocks it adds, in order
BrTableLabels(n, k) ==
    LET c0 == LabelContext(n)
        c == compile_br_table(c0, [i \in 1..k |-> 0], 0)
    IN  [j \in 1..(2 * k) |-> c.blocks[Len(c0.blocks) + j].name]

\* the br_table instructions of one sampled body
MaxLabelTables == 2

InitLabels ==
    /\ fn = [idx |-> 0, params |-> <<>>, results |-> <<>>]
    /\ mod = WalkModule
    /\ func_names = <<>>
    /\ cg = [pc |-> "run", exc |-> "none", label_counter |-> 1]
    /\ last = [op |-> "block", tables |-> 0, minted |-> BlockLabels(0)]
    /\ vc = IdleVc
    /\ rd = IdleReader
    /\ leb = IdleLeb
    /\ pm = IdleParse

\* one instruction that takes labels is compiled; of the function context
\* only the label counter is kept. last.minted is history: the labels
\* taken from new_label since the start of the function, in order
LabelStep(op, labels, tables) ==
    /\ cg.label_counter + Len(labels) <= MaxLabels
    /\ cg' = [cg EXCEPT !.label_counter = @ + Len(labels)]
    /\ last' = [op |-> op, tables |-> tables,
                minted |-> last.minted \o labels]
    /\ UNCHANGED <<rd, leb, pm, mod, func_names, vc, fn>>

\* the sampled bodies: a block is open, in it a br_table, then blocks and
\* br_tables
LabelBlock ==
    /\ 0 < last.tables
    /\ last.tables < MaxLabelTables
    /\ LabelStep("block", BlockLabels(cg.label_counter), last.tables)

LabelBrTable ==
    /\ last.tables < MaxLabelTables
    /\ \E k \in 1..MaxLabelTargets :
          LabelStep("br_table", BrTableLabels(cg.label_counter, k),
                    last.tables + 1)

NextLabels == LabelBlock \/ LabelBrTable

SpecLabels == InitLabels /\ [][NextLabels]_vars

\* C29: the labels taken from new_label while one function is compiled are
\* pairwise distinct
C29_LabelsDistinct ==
    \A i, j \in 1..Len(last.minted) :
       i # j => last.minted[i] # last.minted[j]

====
